---- MODULE Spec2Model ----
(***************************************************************************)
(* Letterboxio: a Stremio addon that mirrors a Letterboxd watchlist and    *)
(* issues rating / watchlist mutations through one Puppeteer browser.      *)
(*                                                                         *)
(* The repository holds two snapshots of the program:                      *)
(*   "current": src/unnamed/part_001 (server) + src/letterboxd.js (lib)    *)
(*   "legacy" : src/unnamed/part_002 (server) + src/unnamed/part_000 (lib) *)
(* and src/server.js, the entry point of the Dockerfile, a server without  *)
(* dedup and queue whose /rate handler awaits rateFilm ("oldest").         *)
(* The variable build says which snapshot runs; it never changes.          *)
(*                                                                         *)
(* Several specifications share the module:                                    *)
(*   Spec        the HTTP handlers, dedup, slug resolution and the queue   *)
(*   SpecQueue   enqueue and the drain loop alone                          *)
(*   SpecDedup   deduplicateRating alone, under a clock                    *)
(*   SpecSession the browser session of the library, one action at a time  *)
(*   SpecConc    ensureBrowserLoggedIn called by concurrent tasks          *)
(*   SpecOldest  the /rate handler of src/server.js                        *)
(*   SpecCache   setCache / getCache alone, under a clock                  *)
(*   SpecResolve resolveSlugFromImdb with the listing and metadata reads   *)
(*   SpecSessionCache  the session of letterboxd.js beside cache fills     *)
(*   SpecCurrent the handlers of part_001 with the credentials set         *)
(*   SpecRace    two overlapping resolveSlugFromImdb calls for one id      *)
(*   SpecRecover the session while the site fails and after it settled     *)
(* SpecQueueLive is SpecQueue with the fairness of the event loop.         *)
(***************************************************************************)
EXTENDS Integers, Sequences, FiniteSets, TLC

\* ---------------------------------------------------------------- bounds

\* Number of HTTP requests of one run of the server specification.
MaxReq == 2

\* Number of jobs handed to enqueue in one run of the queue specification.
MaxJobs == 3

\* Last clock value (ms) of the dedup specification.
MaxClock == 10001

\* Longest run of rejected calls the dedup specification follows.
MaxRejects == 4

\* Browser launches and logins that capture a token in one run of the
\* session specification; pages that may be waiting for their close at once.
MaxLaunches == 2
MaxLogins == 2
MaxTabs == 2

\* Tasks that call ensureBrowserLoggedIn side by side in the concurrent
\* specification.
MaxCallers == 2

\* Last clock value of the cache specification, and the setCache calls it
\* makes on one key.
MaxCacheClock == 4
MaxSets == 2

\* Calls of resolveSlugFromImdb in one run of the resolver specification,
\* the pages a listing has at most, and the times its clock moves.
MaxResolves == 2
MaxPages == 2
MaxReadTicks == 1

\* ------------------------------------------------------------- constants

\* deduplicateRating: `Date.now() - last < 5000`.
DedupWindowMs == 5000

Builds == {"current", "legacy"}

Ids == {"tt1", "tt2"}

\* The action part of a dedup key: a star value for /rate (5, and 0, which
\* is no key of RATING_MAP), else the literal the handler passes.  part_002 has the /rate route only.
ActionsOf(b) ==
    IF b = "current" THEN {"5", "0", "watchlist-add", "watchlist-remove"} ELSE {"5", "0"}

AllActions == {"5", "0", "watchlist-add", "watchlist-remove"}

\* The request is a /rate request; its action is the :stars parameter, which
\* no handler looks at.
IsRating(a) == a \notin {"watchlist-add", "watchlist-remove"}

Keys == Ids \X AllActions

\* Time that passes between two arrivals (ms).
Gaps == {0, DedupWindowMs}

\* Time that passes between two calls of the dedup specification (ms).
Ticks == {DedupWindowMs - 1, DedupWindowMs}

\* The keys the dedup specification calls with: two ids, two actions.
DedupKeys == {<<"tt1", "5">>, <<"tt1", "watchlist-add">>, <<"tt2", "5">>}

\* Slugs of films on the site.
Slugs == {"s1", "s2"}

\* The slug under which the site lists the film of an identifier, where the
\* handlers are followed without the pages they fetch.
SiteSlug(id) == IF id = "tt1" THEN "s1" ELSE "s2"

\* `watchlist:${username}` and `meta:${slug}`: the keys the read paths use.
WatchlistKey == <<"watchlist", "user">>

MetaKey(slug) == <<"meta", slug>>

\* `new Map()`.
EmptyMap == [k \in {} |-> 0]

\* Map.set / Map.delete / Map.has.
MapSet(m, k, e) == [x \in (DOMAIN m) \cup {k} |-> IF x = k THEN e ELSE m[x]]

MapDelete(m, k) == [x \in (DOMAIN m) \ {k} |-> m[x]]

MapHas(m, k) == k \in DOMAIN m

Max(a, b) == IF a >= b THEN a ELSE b

Reqs == 1..Max(MaxReq, MaxJobs)

VARIABLES
    build,              \* which snapshot of the program runs
    hasSession,         \* hasSession(): both credentials are in the environment
    now,                \* Date.now()
    recentRatings,      \* Map key -> timestamp of last accepted request (0: no entry)
    imdbToSlugCache,    \* the identity map: Map imdbId -> slug
    req,                \* per request: its parameters and the position of its handler / job
    arrived,            \* number of requests received so far
    puppeteerQueue,     \* pending jobs, oldest first (a job is named by its request)
    puppeteerRunning,   \* the drain flag
    enqLog,             \* history: jobs in the order enqueue was called
    lastDedup,          \* history: the last deduplicateRating call and what it returned
    lastAccepted,       \* history: key -> time of the last call that returned true (0: none)
    browser,            \* the library's browser: 0 is null, else the instance launched n-th
    connected,          \* the instances whose browser.connected is true
    browserLoggedIn,    \* the library's login flag
    sessionCsrf,        \* the stored token: 0 is null / undefined, else the token of the n-th login
    launches,           \* number of successful puppeteer.launch calls
    logins,             \* number of logins that captured a token
    openTabs,           \* pages opened with newPage on which page.close was not yet called
    call,               \* the library action in progress and its position
    ret,                \* history: what the last action returned
    recov,              \* history: what happened since the last auth rejection
    loggedOn,           \* history: the instances on which a login transcript succeeded
    conc,               \* concurrent callers of ensureBrowserLoggedIn and their positions
    cache,              \* the library's cache: Map key -> {value, expiresAt}
    cacheLog,           \* history: the last setCache of each key and the last getCache
    rs,                 \* the resolveSlugFromImdb call in progress, its locals and its history
    race,               \* two overlapping resolveSlugFromImdb calls and what the site answered
    siteGood            \* environment: from now on the site and the browser do what they are asked

serverVars == <<now, recentRatings, imdbToSlugCache, req, arrived,
                puppeteerQueue, puppeteerRunning, enqLog>>

dedupVars == <<lastDedup, lastAccepted>>

sessVars == <<browser, connected, browserLoggedIn, sessionCsrf, launches, logins,
              openTabs, call, ret, recov, loggedOn>>

readVars == <<cache, cacheLog, rs, race, siteGood>>

vars == <<build, hasSession, serverVars, dedupVars, sessVars, conc, readVars>>

\* ------------------------------------------------------------------ dedup

\* key, time and result of a call; prev: when the key was last accepted
\* before it; rejBefore: the rejected calls of that key right before it.
NoDedup == [key |-> <<"none", "none">>, at |-> 0, ok |-> FALSE, prev |-> 0,
            rejBefore |-> 0]

\* deduplicateRating with the timestamp written on every call.
DeduplicateRatingAlwaysStamp(imdbId, action, t, recent) ==
    LET key == <<imdbId, action>>
        last == recent[key]
    IN  [ok |-> ~(last # 0 /\ t - last < DedupWindowMs),
         recent |-> [recent EXCEPT ![key] = t]]

\* deduplicateRating that never records the accepted request.
DeduplicateRatingNoStamp(imdbId, action, t, recent) ==
    [ok |-> TRUE, recent |-> recent]

\* deduplicateRating(imdbId, action) at time t on map recent: what it returns
\* and the map it leaves.  `last &&` is false for a missing entry and for 0.
DeduplicateRating(imdbId, action, t, recent) ==
    LET key == <<imdbId, action>>
        last == recent[key]
    IN  IF last # 0 /\ t - last < DedupWindowMs
        THEN [ok |-> FALSE, recent |-> recent]
        ELSE [ok |-> TRUE, recent |-> [recent EXCEPT ![key] = t]]

\* ----------------------------------------------------------------- rating

\* The keys of RATING_MAP: String(starRating) of the accepted star values.
StarKeys == {"0.5", "1", "1.5", "2", "2.5", "3", "3.5", "4", "4.5", "5"}

\* RATING_MAP with whole stars only: a half star is rounded down.
RatingMapWholeStars ==
    [k \in StarKeys |->
        CASE k \in {"0.5", "1", "1.5"} -> 2
          [] k \in {"2", "2.5"} -> 4
          [] k \in {"3", "3.5"} -> 6
          [] k \in {"4", "4.5"} -> 8
          [] OTHER -> 10]

RATING_MAP ==
    [k \in StarKeys |->
        CASE k = "0.5" -> 1 [] k = "1" -> 2 [] k = "1.5" -> 3 [] k = "2" -> 4
          [] k = "2.5" -> 5 [] k = "3" -> 6 [] k = "3.5" -> 7 [] k = "4" -> 8
          [] k = "4.5" -> 9 [] OTHER -> 10]

\* Ten times the number a star key is the decimal numeral of.
StarTenths ==
    [k \in StarKeys |->
        CASE k = "0.5" -> 5 [] k = "1" -> 10 [] k = "1.5" -> 15 [] k = "2" -> 20
          [] k = "2.5" -> 25 [] k = "3" -> 30 [] k = "3.5" -> 35 [] k = "4" -> 40
          [] k = "4.5" -> 45 [] OTHER -> 50]

\* Star values a caller passes: the accepted ones, and zero, a value above
\* the scale and the internal ten.
StarInputs == StarKeys \cup {"0", "5.5", "10"}

StarsFor(op) == IF op = "rateFilm" THEN StarInputs ELSE {"none"}

\* `RATING_MAP[String(starRating)]`: undefined (0 here) for any other key.
RatingValue(stars) == IF stars \in DOMAIN RATING_MAP THEN RATING_MAP[stars] ELSE 0

\* ------------------------------------------------------------------ queue

\* acked: the handler has sent its response; waited: the job was enqueued
\* while the drain was running; starts: calls of the job function; outcome:
\* how the job ended (ok: the action reported success; failed: it reported a
\* failure; threw: the job function threw).
NewReq == [imdbId |-> "none", action |-> "none", at |-> 0, pc |-> "new",
           accepted |-> FALSE, posts |-> 0, acked |-> FALSE, waited |-> FALSE,
           starts |-> 0, outcome |-> "none"]

\* Positions of a job that has been started and has not returned or thrown.
ExecutingPcs == {"running", "posted"}

\* Positions of a job that has returned or thrown.
CompletePcs == {"settled", "done"}

\* fn() is called: the job runs up to its first await.  rateFilm returns its
\* failure at once for a star value that is no key of RATING_MAP.  In the current
\* snapshot removeFromWatchlist is not exported by the library, so the call
\* throws inside the async job and the job's promise is rejected at once.
StartJob(rq, r) ==
    IF build = "current" /\ rq[r].action = "watchlist-remove"
    THEN [rq EXCEPT ![r].pc = "settled", ![r].starts = @ + 1, ![r].outcome = "threw"]
    ELSE IF IsRating(rq[r].action) /\ RatingValue(rq[r].action) = 0
    THEN [rq EXCEPT ![r].pc = "settled", ![r].starts = @ + 1, ![r].outcome = "failed"]
    ELSE [rq EXCEPT ![r].pc = "running", ![r].starts = @ + 1]

\* processPuppeteerQueue that takes the newest job.
ProcessPuppeteerQueueLifo(q, rq) ==
    IF q = <<>>
    THEN /\ puppeteerRunning' = FALSE
         /\ puppeteerQueue' = q
         /\ req' = rq
    ELSE /\ puppeteerRunning' = TRUE
         /\ puppeteerQueue' = SubSeq(q, 1, Len(q) - 1)
         /\ req' = StartJob(rq, q[Len(q)])

\* processPuppeteerQueue that leaves the drain flag set on an empty queue.
ProcessPuppeteerQueueKeepsFlag(q, rq) ==
    IF q = <<>>
    THEN /\ puppeteerRunning' = puppeteerRunning
         /\ puppeteerQueue' = q
         /\ req' = rq
    ELSE /\ puppeteerRunning' = TRUE
         /\ puppeteerQueue' = Tail(q)
         /\ req' = StartJob(rq, Head(q))

\* processPuppeteerQueue / processRatingQueue, up to its await: on queue q
\* with request table rq.
ProcessPuppeteerQueue(q, rq) ==
    IF q = <<>>
    THEN /\ puppeteerRunning' = FALSE
         /\ puppeteerQueue' = q
         /\ req' = rq
    ELSE /\ puppeteerRunning' = TRUE
         /\ puppeteerQueue' = Tail(q)
         /\ req' = StartJob(rq, Head(q))

\* enqueuePuppeteer without the test of the drain flag.
EnqueuePuppeteerNoFlag(r, rq) ==
    /\ enqLog' = Append(enqLog, r)
    /\ ProcessPuppeteerQueue(Append(puppeteerQueue, r), rq)

\* enqueuePuppeteer / enqueueRating for the job of request r.
EnqueuePuppeteer(r, rq) ==
    /\ enqLog' = Append(enqLog, r)
    /\ IF ~puppeteerRunning
       THEN ProcessPuppeteerQueue(Append(puppeteerQueue, r), rq)
       ELSE /\ puppeteerQueue' = Append(puppeteerQueue, r)
            /\ puppeteerRunning' = puppeteerRunning
            /\ req' = [rq EXCEPT ![r].waited = TRUE]

\* --------------------------------------------------------------- handlers

\* GET /rate/:imdbId/:stars, /watchlist/add/:imdbId, /watchlist/remove/:imdbId:
\* acknowledge, hasSession, dedup, and the synchronous start of
\* resolveSlugFromImdb.  On an identity-map hit the promise is already
\* resolved and the .then callback enqueues the job in the same turn of the
\* event loop; otherwise the listing scan begins.
Arrive(r, id, a, gap) ==
    /\ r = arrived + 1
    /\ r <= MaxReq
    /\ arrived' = r
    /\ now' = now + gap
    /\ LET d == DeduplicateRating(id, a, now', recentRatings)
           base == [NewReq EXCEPT !.imdbId = id, !.action = a, !.at = now',
                                  !.acked = TRUE]
       IN  IF ~hasSession
           THEN /\ req' = [req EXCEPT ![r] = [base EXCEPT !.pc = "nosession"]]
                /\ UNCHANGED <<recentRatings, puppeteerQueue, puppeteerRunning, enqLog>>
           ELSE /\ recentRatings' = d.recent
                /\ IF ~d.ok
                   THEN /\ req' = [req EXCEPT ![r] = [base EXCEPT !.pc = "duplicate"]]
                        /\ UNCHANGED <<puppeteerQueue, puppeteerRunning, enqLog>>
                   ELSE IF MapHas(imdbToSlugCache, id)
                   THEN EnqueuePuppeteer(r, [req EXCEPT ![r] =
                            [base EXCEPT !.accepted = TRUE, !.pc = "queued"]])
                   ELSE /\ req' = [req EXCEPT ![r] =
                            [base EXCEPT !.accepted = TRUE, !.pc = "scanning"]]
                        /\ UNCHANGED <<puppeteerQueue, puppeteerRunning, enqLog>>
    /\ UNCHANGED <<readVars, build, hasSession, imdbToSlugCache, dedupVars, sessVars, conc>>

\* resolveSlugFromImdb, the listing scan.  A match stores the identity entry
\* and the .then callback enqueues the job.  No match calls
\* resolveSlugFromImdbViaPuppeteer, which in the legacy snapshot logs in and
\* opens a tab on the shared browser (part_000) and in the current one only
\* fetches with axios (letterboxd.js).
ResolveScan(r, hit) ==
    /\ req[r].pc = "scanning"
    /\ IF hit
       THEN /\ imdbToSlugCache' = MapSet(imdbToSlugCache, req[r].imdbId, SiteSlug(req[r].imdbId))
            /\ EnqueuePuppeteer(r, [req EXCEPT ![r].pc = "queued"])
       ELSE /\ imdbToSlugCache' = imdbToSlugCache
            /\ req' = [req EXCEPT ![r].pc =
                  IF build = "legacy" THEN "fallbackBrowser" ELSE "fallbackAxios"]
            /\ UNCHANGED <<puppeteerQueue, puppeteerRunning, enqLog>>
    /\ UNCHANGED <<readVars, build, hasSession, now, recentRatings, arrived, dedupVars, sessVars, conc>>

\* A handler that takes the dedup entry back when the identifier was not found.
ResolveFallbackRollsBack(r, found) ==
    /\ req[r].pc \in {"fallbackBrowser", "fallbackAxios"}
    /\ IF found
       THEN /\ imdbToSlugCache' = MapSet(imdbToSlugCache, req[r].imdbId, SiteSlug(req[r].imdbId))
            /\ EnqueuePuppeteer(r, [req EXCEPT ![r].pc = "queued"])
            /\ UNCHANGED recentRatings
       ELSE /\ imdbToSlugCache' = imdbToSlugCache
            /\ req' = [req EXCEPT ![r].pc = "notfound"]
            /\ recentRatings' = [recentRatings EXCEPT ![<<req[r].imdbId, req[r].action>>] = 0]
            /\ UNCHANGED <<puppeteerQueue, puppeteerRunning, enqLog>>
    /\ UNCHANGED <<readVars, build, hasSession, now, arrived, dedupVars, sessVars, conc>>

\* resolveSlugFromImdbViaPuppeteer returns a slug (the identity entry is
\* stored, the job enqueued) or null (the handler logs and stops).
ResolveFallback(r, found) ==
    /\ req[r].pc \in {"fallbackBrowser", "fallbackAxios"}
    /\ IF found
       THEN /\ imdbToSlugCache' = MapSet(imdbToSlugCache, req[r].imdbId, SiteSlug(req[r].imdbId))
            /\ EnqueuePuppeteer(r, [req EXCEPT ![r].pc = "queued"])
       ELSE /\ imdbToSlugCache' = imdbToSlugCache
            /\ req' = [req EXCEPT ![r].pc = "notfound"]
            /\ UNCHANGED <<puppeteerQueue, puppeteerRunning, enqLog>>
    /\ UNCHANGED <<readVars, build, hasSession, now, recentRatings, arrived, dedupVars, sessVars, conc>>

\* ------------------------------------------------------------------- jobs

\* rateFilm / addToWatchlist reach their mutating call: puppeteerPost's fetch
\* (letterboxd.js), the in-page fetch of rateFilm (part_000).  Each calls it
\* once.
JobPost(r) ==
    /\ req[r].pc = "running"
    /\ req' = [req EXCEPT ![r].pc = "posted", ![r].posts = @ + 1]
    /\ UNCHANGED <<readVars, build, hasSession, now, recentRatings, imdbToSlugCache,
                   arrived, puppeteerQueue, puppeteerRunning, enqLog, dedupVars, sessVars, conc>>

\* The job's promise settles: the action returned {success, error?} after its
\* mutating call, or without one (login failed, no film id, a step threw).
\* Only a call that was issued can have succeeded.
JobSettle(r, ok) ==
    /\ req[r].pc \in ExecutingPcs
    /\ ok => req[r].pc = "posted"
    /\ req' = [req EXCEPT ![r].pc = "settled",
                          ![r].outcome = IF ok THEN "ok" ELSE "failed"]
    /\ UNCHANGED <<readVars, build, hasSession, now, recentRatings, imdbToSlugCache,
                   arrived, puppeteerQueue, puppeteerRunning, enqLog, dedupVars, sessVars, conc>>

\* A drain that gives up when the job it awaited did not succeed.
DrainResumeStopsOnFailure(r) ==
    /\ req[r].pc = "settled"
    /\ IF req[r].outcome = "ok"
       THEN ProcessPuppeteerQueue(puppeteerQueue, [req EXCEPT ![r].pc = "done"])
       ELSE /\ req' = [req EXCEPT ![r].pc = "done"]
            /\ UNCHANGED <<puppeteerQueue, puppeteerRunning>>
    /\ UNCHANGED <<readVars, build, hasSession, now, recentRatings, imdbToSlugCache,
                   arrived, enqLog, dedupVars, sessVars, conc>>

\* The drain resumes after `await fn()`, whether fn returned or threw, and
\* calls processPuppeteerQueue again.
DrainResume(r) ==
    /\ req[r].pc = "settled"
    /\ ProcessPuppeteerQueue(puppeteerQueue, [req EXCEPT ![r].pc = "done"])
    /\ UNCHANGED <<readVars, build, hasSession, now, recentRatings, imdbToSlugCache,
                   arrived, enqLog, dedupVars, sessVars, conc>>

\* ------------------------------------------------------ server.js
\* GET /rate/:imdbId/:stars of src/server.js: an async handler that resolves
\* the slug, awaits rateFilm and only then responds.  It has no dedup and no
\* queue; every request is a task of its own.

ResolvingPcs == {"scanning", "fallbackBrowser", "fallbackAxios"}

\* `const result = await rateFilm(slug, stars)` is reached with a slug.
RateOldest(rq, r) == StartJob(rq, r)

\* The handler up to its first await: without credentials it responds and
\* returns; else it calls resolveSlugFromImdb, which returns the identity
\* entry or begins the listing scan.
ArriveOldest(r, id, a) ==
    /\ r = arrived + 1
    /\ r <= MaxReq
    /\ arrived' = r
    /\ LET base == [NewReq EXCEPT !.imdbId = id, !.action = a, !.at = now]
       IN  req' = IF ~hasSession
                  THEN [req EXCEPT ![r] = [base EXCEPT !.pc = "nosession", !.acked = TRUE]]
                  ELSE IF MapHas(imdbToSlugCache, id)
                  THEN RateOldest([req EXCEPT ![r] = base], r)
                  ELSE [req EXCEPT ![r] = [base EXCEPT !.pc = "scanning"]]
    /\ UNCHANGED <<readVars, build, hasSession, now, recentRatings, imdbToSlugCache,
                   puppeteerQueue, puppeteerRunning, enqLog, dedupVars, sessVars, conc>>

\* resolveSlugFromImdb of server.js, the listing scan: a match stores the
\* identity entry and the handler goes on to rateFilm; no match goes on to
\* the search request.
ResolveScanOldest(r, hit) ==
    /\ req[r].pc = "scanning"
    /\ IF hit
       THEN /\ imdbToSlugCache' = MapSet(imdbToSlugCache, req[r].imdbId, SiteSlug(req[r].imdbId))
            /\ req' = RateOldest(req, r)
       ELSE /\ imdbToSlugCache' = imdbToSlugCache
            /\ req' = [req EXCEPT ![r].pc = "fallbackAxios"]
    /\ UNCHANGED <<readVars, build, hasSession, now, recentRatings, arrived,
                   puppeteerQueue, puppeteerRunning, enqLog, dedupVars, sessVars, conc>>

\* resolveSlugFromImdb of server.js, the search request: a result stores the
\* identity entry and the handler goes on to rateFilm; none makes the handler
\* respond and return.
ResolveSearchOldest(r, found) ==
    /\ req[r].pc = "fallbackAxios"
    /\ IF found
       THEN /\ imdbToSlugCache' = MapSet(imdbToSlugCache, req[r].imdbId, SiteSlug(req[r].imdbId))
            /\ req' = RateOldest(req, r)
       ELSE /\ imdbToSlugCache' = imdbToSlugCache
            /\ req' = [req EXCEPT ![r].pc = "notfound", ![r].acked = TRUE]
    /\ UNCHANGED <<readVars, build, hasSession, now, recentRatings, arrived,
                   puppeteerQueue, puppeteerRunning, enqLog, dedupVars, sessVars, conc>>

\* rateFilm has returned: the handler logs the result and responds.
RespondOldest(r) ==
    /\ req[r].pc = "settled"
    /\ req' = [req EXCEPT ![r].pc = "done", ![r].acked = TRUE]
    /\ UNCHANGED <<readVars, build, hasSession, now, recentRatings, imdbToSlugCache, arrived,
                   puppeteerQueue, puppeteerRunning, enqLog, dedupVars, sessVars, conc>>

\* ---------------------------------------------------------------- session
\* The library's browser session.  Its actions are called one at a time, as
\* the queue of the current snapshot calls them; ensureBrowserLoggedIn is
\* entered from the action itself (site "action") and, in the current
\* snapshot, again from puppeteerPost (site "post").

OpsOf(b) == IF b = "current" THEN {"rateFilm", "addToWatchlist"} ELSE {"rateFilm"}

\* Positions inside ensureBrowserLoggedIn.
EnsurePcs == {"launching", "loginPage", "login", "loginClose"}

\* HTTP outcomes of the mutating call: 200 with the success flag, 200 with
\* an unexpected body, 403, another status.
Statuses == {"ok200", "bad200", "s403", "s500"}

\* stars: the star value the action was called with; rating: what RATING_MAP
\* gave for it; sent: the rating in the body of the mutating call.
IdleCall == [op |-> "none", pc |-> "idle", site |-> "none", exc |-> FALSE,
             status |-> "none", token |-> 0, posted |-> FALSE,
             stars |-> "none", rating |-> 0, sent |-> 0]

\* at: where the action threw ("login": in the login transcript); posted: the
\* action had issued its mutating call; cached: the keys the cache held when
\* the action came to its return.
NoRet == [op |-> "none", success |-> FALSE, cause |-> "none", token |-> 0,
          at |-> "none", posted |-> FALSE, cached |-> {}]

\* st: none | pending (a 403 invalidated the session and no
\* ensureBrowserLoggedIn call has ended since) | returned | threw (how the
\* next call ended); b: the instance that got the rejection; down: that call
\* found no connected browser; launched, loggedin: the call launched / ran the
\* login transcript; rb: the instance it returned.
NoRecov == [st |-> "none", b |-> 0, down |-> FALSE, launched |-> FALSE,
            loggedin |-> FALSE, rb |-> 0]

Globals == [browser |-> browser, loggedIn |-> browserLoggedIn, csrf |-> sessionCsrf]

Up(g) == g.browser # 0 /\ g.browser \in connected'

\* The new values of the action's position, the library's globals and the
\* two histories.
Set(c, g, rv, rt) ==
    /\ call' = c
    /\ browser' = g.browser
    /\ browserLoggedIn' = g.loggedIn
    /\ sessionCsrf' = g.csrf
    /\ recov' = rv
    /\ ret' = rt

\* The action returns {success, error?} without having thrown.
Return(c, g, rv, success, cause) ==
    Set(IdleCall, g, rv,
        [op |-> c.op, success |-> success, cause |-> cause, token |-> c.token,
         at |-> "none", posted |-> c.posted, cached |-> DOMAIN cache])

\* The catch block of the action: rateFilm drops the browser reference, the
\* login flag and the token (part_000: the reference and the flag; it has no
\* stored token); addToWatchlist only builds its result.
Catch(c, g) ==
    IF c.op = "rateFilm"
    THEN [browser |-> 0, loggedIn |-> FALSE, csrf |-> 0]
    ELSE g

\* A step of the action throws: its catch block runs and it returns failure.
Throw(c, g, rv) ==
    Set(IdleCall, Catch(c, g),
        IF rv.st = "pending" /\ c.pc \in EnsurePcs \cup {"idle"}
            THEN [rv EXCEPT !.st = "threw"] ELSE rv,
        [op |-> c.op, success |-> FALSE, cause |-> "exception", token |-> c.token,
         at |-> IF c.pc = "loginClose" /\ c.exc THEN "login" ELSE c.pc,
         posted |-> c.posted, cached |-> DOMAIN cache])

\* puppeteerPost without `if (!sessionCsrf) throw`.
AfterEnsureNoTokenTest(c, g, rv) ==
    LET rv2 == IF rv.st = "pending"
               THEN [rv EXCEPT !.st = "returned", !.rb = g.browser] ELSE rv
    IN  IF c.site = "action"
        THEN Set([c EXCEPT !.pc = IF build = "current" THEN "filmId" ELSE "ratePage"],
                 g, rv2, NoRet)
        ELSE Set([c EXCEPT !.pc = "postPage"], g, rv2, NoRet)

\* ensureBrowserLoggedIn returns the browser to its caller, which goes on to
\* its next await: rateFilm / addToWatchlist to the film id lookup (part_000:
\* to newPage), puppeteerPost to the token test and newPage.
AfterEnsure(c, g, rv) ==
    LET rv2 == IF rv.st = "pending"
               THEN [rv EXCEPT !.st = "returned", !.rb = g.browser] ELSE rv
    IN  IF c.site = "action"
        THEN Set([c EXCEPT !.pc = IF build = "current" THEN "filmId" ELSE "ratePage"],
                 g, rv2, NoRet)
        ELSE IF g.csrf = 0
        THEN Throw([c EXCEPT !.pc = "postPage"], g, rv2)
        ELSE Set([c EXCEPT !.pc = "postPage"], g, rv2, NoRet)

\* ensureBrowserLoggedIn without `if (browserLoggedIn) return b`.
AfterGetBrowserAlwaysLogin(c, g, rv) ==
    IF ~hasSession THEN Throw([c EXCEPT !.pc = "loginPage"], g, rv)
    ELSE Set([c EXCEPT !.pc = "loginPage"], g, rv, NoRet)

\* ensureBrowserLoggedIn after getBrowser has returned: the flag test, the
\* credentials test, then newPage for the login.
AfterGetBrowser(c, g, rv) ==
    IF g.loggedIn THEN AfterEnsure(c, g, rv)
    ELSE IF ~hasSession THEN Throw([c EXCEPT !.pc = "loginPage"], g, rv)
    ELSE Set([c EXCEPT !.pc = "loginPage"], g, rv, NoRet)

\* ensureBrowserLoggedIn that trusts a connected browser to be logged in.
EnsureBrowserLoggedInNoFlag(c, g, rv) ==
    LET rv1 == IF rv.st = "pending" THEN [rv EXCEPT !.down = ~Up(g)] ELSE rv
    IN  IF Up(g)
        THEN AfterEnsure(c, g, rv1)
        ELSE Set([c EXCEPT !.pc = "launching"], g, rv1, NoRet)

\* ensureBrowserLoggedIn is called: getBrowser returns the browser when it is
\* set and connected, else awaits puppeteer.launch.
EnsureBrowserLoggedIn(c, g, rv) ==
    LET rv1 == IF rv.st = "pending" THEN [rv EXCEPT !.down = ~Up(g)] ELSE rv
    IN  IF Up(g)
        THEN AfterGetBrowser(c, g, rv1)
        ELSE Set([c EXCEPT !.pc = "launching"], g, rv1, NoRet)

\* rateFilm(slug, starRating) / addToWatchlist(slug) is called.  rateFilm
\* looks the star value up and returns at once when the map has no entry.
Call(op, stars) ==
    /\ call.pc = "idle"
    /\ UNCHANGED <<connected, launches, logins, loggedOn, openTabs>>
    /\ LET c == [IdleCall EXCEPT !.op = op, !.site = "action", !.stars = stars,
                                 !.rating = IF op = "rateFilm" THEN RatingValue(stars)
                                            ELSE 0]
       IN  IF op = "rateFilm" /\ c.rating = 0
           THEN Return(c, Globals, recov, FALSE, "invalid")
           ELSE EnsureBrowserLoggedIn(c, Globals, recov)
    /\ UNCHANGED <<readVars, build, hasSession, serverVars, dedupVars, conc>>

\* getBrowser without `browserLoggedIn = false` after the launch.
OnLaunchKeepsFlag(g, n) == [g EXCEPT !.browser = n]

\* getBrowser after puppeteer.launch resolved with instance n: the reference
\* is replaced and the login flag reset; the token is not touched.
OnLaunch(g, n) == [g EXCEPT !.browser = n, !.loggedIn = FALSE]

\* Positions of an action between the return of ensureBrowserLoggedIn and its
\* own return.
PostEnsurePcs == {"filmId", "postPage", "postGoto", "postFetch", "postClose",
                  "ratePage", "rateNav", "rateFetch", "rateClose", "rateCatch"}

\* getBrowser: puppeteer.launch resolves (the new instance replaces the
\* reference and the login flag is reset) or rejects.
Launch(ok) ==
    /\ call.pc = "launching"
    /\ UNCHANGED <<logins, loggedOn, openTabs>>
    /\ IF ok
       THEN /\ launches < MaxLaunches
            /\ launches' = launches + 1
            /\ connected' = connected \cup {launches + 1}
            /\ AfterGetBrowser(call,
                   OnLaunch(Globals, launches + 1),
                   IF recov.st = "pending" THEN [recov EXCEPT !.launched = TRUE] ELSE recov)
       ELSE /\ UNCHANGED <<launches, connected>>
            /\ Throw(call, Globals, recov)
    /\ UNCHANGED <<readVars, build, hasSession, serverVars, dedupVars, conc>>

\* ensureBrowserLoggedIn: `const page = await b.newPage()`, before the try.
LoginNewPage(ok) ==
    /\ call.pc = "loginPage"
    /\ UNCHANGED <<connected, launches, logins, loggedOn>>
    /\ IF ok
       THEN /\ browser \in connected
            /\ openTabs < MaxTabs
            /\ openTabs' = openTabs + 1
            /\ Set([call EXCEPT !.pc = "login"], Globals, recov, NoRet)
       ELSE /\ openTabs' = openTabs
            /\ Throw(call, Globals, recov)
    /\ UNCHANGED <<readVars, build, hasSession, serverVars, dedupVars, conc>>

\* The login transcript that sets the flag before it tests the URL.
LoginGlobalsFlagFirst(outcome, g, t) ==
    [g EXCEPT !.loggedIn = TRUE,
              !.csrf = IF outcome = "token" THEN t
                       ELSE IF build = "current" /\ outcome = "notoken" THEN 0 ELSE @]

\* The module state after the login transcript: a failure (a step threw, or
\* the URL is still the sign-in page) leaves it as it was; a success stores
\* what the token read returned (t, or undefined), then sets the flag.
LoginGlobals(outcome, g, t) ==
    IF outcome = "fail" THEN g
    ELSE [g EXCEPT !.loggedIn = TRUE,
                   !.csrf = IF outcome = "token" THEN t
                            ELSE IF build = "current" THEN 0 ELSE @]

\* The login transcript: goto sign-in, wait for the form, type, submit, test
\* the URL, read the token.  "token": success with a token on the page;
\* "notoken": success, the evaluate returned undefined (part_000 reads no
\* token at login); "fail": a step threw or the URL is still the sign-in page.
LoginTranscript(outcome) ==
    /\ call.pc = "login"
    /\ UNCHANGED <<connected, launches, openTabs>>
    /\ outcome \in {"token", "notoken"} => browser \in connected
    /\ outcome = "token" => build = "current" /\ logins < MaxLogins
    /\ logins' = IF outcome = "token" THEN logins + 1 ELSE logins
    /\ loggedOn' = IF outcome = "fail" THEN loggedOn ELSE loggedOn \cup {browser}
    /\ LET rv == IF recov.st = "pending" /\ outcome # "fail"
                 THEN [recov EXCEPT !.loggedin = TRUE] ELSE recov
       IN  Set([call EXCEPT !.pc = "loginClose", !.exc = (outcome = "fail")],
               LoginGlobals(outcome, Globals, logins + 1), rv, NoRet)
    /\ UNCHANGED <<readVars, build, hasSession, serverVars, dedupVars, conc>>

\* ensureBrowserLoggedIn: `finally { await page.close() }`, then the pending
\* exception, or the return of the browser.
LoginClose(ok) ==
    /\ call.pc = "loginClose"
    /\ UNCHANGED <<connected, launches, logins, loggedOn>>
    /\ ok => browser \in connected
    /\ openTabs' = openTabs - 1
    /\ IF call.exc \/ ~ok
       THEN Throw(call, Globals, recov)
       ELSE AfterEnsure(call, Globals, recov)
    /\ UNCHANGED <<readVars, build, hasSession, serverVars, dedupVars, conc>>

\* rateFilm / addToWatchlist (letterboxd.js): the axios read of data-film-id,
\* whose failure is swallowed; with an id, puppeteerPost is called and enters
\* ensureBrowserLoggedIn again.
FilmId(found) ==
    /\ call.pc = "filmId"
    /\ UNCHANGED <<connected, launches, logins, loggedOn, openTabs>>
    /\ IF found
       THEN EnsureBrowserLoggedIn([call EXCEPT !.site = "post"], Globals, recov)
       ELSE Return(call, Globals, recov, FALSE, "nofilmid")
    /\ UNCHANGED <<readVars, build, hasSession, serverVars, dedupVars, conc>>

\* puppeteerPost: `const page = await b.newPage()`, before the try.
PostNewPage(ok) ==
    /\ call.pc = "postPage"
    /\ UNCHANGED <<connected, launches, logins, loggedOn>>
    /\ IF ok
       THEN /\ browser \in connected
            /\ openTabs < MaxTabs
            /\ openTabs' = openTabs + 1
            /\ Set([call EXCEPT !.pc = "postGoto"], Globals, recov, NoRet)
       ELSE /\ openTabs' = openTabs
            /\ Throw(call, Globals, recov)
    /\ UNCHANGED <<readVars, build, hasSession, serverVars, dedupVars, conc>>

\* puppeteerPost: setRequestInterception and goto(BASE_URL).
PostGoto(ok) ==
    /\ call.pc = "postGoto"
    /\ UNCHANGED <<connected, launches, logins, loggedOn, openTabs>>
    /\ ok => browser \in connected
    /\ Set([call EXCEPT !.pc = IF ok THEN "postFetch" ELSE "postClose", !.exc = ~ok],
           Globals, recov, NoRet)
    /\ UNCHANGED <<readVars, build, hasSession, serverVars, dedupVars, conc>>

\* puppeteerPost: the in-page fetch, with the stored token appended to the
\* body; it answers with a status, or the evaluate throws.
PostFetch(status) ==
    /\ call.pc = "postFetch"
    /\ UNCHANGED <<connected, launches, logins, loggedOn, openTabs>>
    /\ status \in Statuses => browser \in connected
    /\ Set([call EXCEPT !.pc = "postClose", !.exc = (status = "throw"),
                        !.status = status, !.token = sessionCsrf, !.posted = TRUE,
                        !.sent = call.rating],
           Globals, recov, NoRet)
    /\ UNCHANGED <<readVars, build, hasSession, serverVars, dedupVars, conc>>

\* `rating:${slug}` and `userrating:${username}:${slug}` for the film the
\* action is called with.
RatingKey == <<"rating", "s1">>

UserRatingKey == <<"userrating", "s1">>

\* The cache entries an action deletes when it succeeds.
OwnKeys(op) == IF op = "addToWatchlist" THEN {WatchlistKey} ELSE {RatingKey, UserRatingKey}

\* An action that drops its entries on every 200 answer.
InvalidateOnAny200(c, ch) ==
    IF c.status \in {"ok200", "bad200"}
    THEN [k \in (DOMAIN ch) \ OwnKeys(c.op) |-> ch[k]]
    ELSE ch

\* The cache after the action has looked at the answer of its mutating call:
\* `cache.delete(...)` in the branch that returns success, nothing elsewhere.
Invalidate(c, ch) ==
    IF c.status = "ok200"
    THEN [k \in (DOMAIN ch) \ OwnKeys(c.op) |-> ch[k]]
    ELSE ch

\* An action that takes an unexpected 200 body for a rejection of the session.
OnStatusBadBodyResets(c, g, rv) ==
    CASE c.status = "ok200" -> Return(c, g, rv, TRUE, "ok")
      [] c.status \in {"bad200", "s403"} ->
            Return(c, [g EXCEPT !.loggedIn = FALSE, !.csrf = 0],
                   [NoRecov EXCEPT !.st = "pending", !.b = g.browser], FALSE, "http403")
      [] OTHER -> Return(c, g, rv, FALSE, "http")

\* The 403 branch without the reset of the token.
OnStatusKeepsToken(c, g, rv) ==
    CASE c.status = "ok200" -> Return(c, g, rv, TRUE, "ok")
      [] c.status = "bad200" -> Return(c, g, rv, FALSE, "unexpected")
      [] c.status = "s403" ->
            Return(c, [g EXCEPT !.loggedIn = FALSE],
                   [NoRecov EXCEPT !.st = "pending", !.b = g.browser], FALSE, "http403")
      [] OTHER -> Return(c, g, rv, FALSE, "http")

\* rateFilm / addToWatchlist after the mutating call: 200 with the success
\* flag is success; 403 resets the login flag and the token (part_000: the
\* flag; it has no stored token); everything else is a failure.
OnStatus(c, g, rv) ==
    CASE c.status = "ok200" -> Return(c, g, rv, TRUE, "ok")
      [] c.status = "bad200" -> Return(c, g, rv, FALSE, "unexpected")
      [] c.status = "s403" ->
            Return(c, [g EXCEPT !.loggedIn = FALSE, !.csrf = 0],
                   [NoRecov EXCEPT !.st = "pending", !.b = g.browser], FALSE, "http403")
      [] OTHER -> Return(c, g, rv, FALSE, "http")

\* puppeteerPost: `finally { await page.close() }`, then the pending
\* exception, or the result goes back to the action.
PostClose(ok) ==
    /\ call.pc = "postClose"
    /\ UNCHANGED <<connected, launches, logins, loggedOn>>
    /\ ok => browser \in connected
    /\ openTabs' = openTabs - 1
    /\ IF call.exc \/ ~ok
       THEN /\ Throw(call, Globals, recov)
            /\ cache' = cache
       ELSE /\ OnStatus(call, Globals, recov)
            /\ cache' = Invalidate(call, cache)
    /\ UNCHANGED <<cacheLog, rs, race, siteGood, build, hasSession, serverVars, dedupVars, conc>>

\* rateFilm (part_000): `page = await b.newPage()`, inside the try.
RateNewPage(ok) ==
    /\ call.pc = "ratePage"
    /\ UNCHANGED <<connected, launches, logins, loggedOn>>
    /\ IF ok
       THEN /\ browser \in connected
            /\ openTabs < MaxTabs
            /\ openTabs' = openTabs + 1
            /\ Set([call EXCEPT !.pc = "rateNav"], Globals, recov, NoRet)
       ELSE /\ openTabs' = openTabs
            /\ Throw(call, Globals, recov)
    /\ UNCHANGED <<readVars, build, hasSession, serverVars, dedupVars, conc>>

\* rateFilm (part_000): goto the film page, wait for the rating widget, read
\* data-rate-action and the token.  "widget": both read; "nowidget": the
\* attribute is empty and rateFilm returns at once, its page still open;
\* "throw": a step threw (navigation or selector timeout).
RateNavigate(outcome) ==
    /\ call.pc = "rateNav"
    /\ UNCHANGED <<connected, launches, logins, loggedOn, openTabs>>
    /\ outcome # "throw" => browser \in connected
    /\ CASE outcome = "widget" -> Set([call EXCEPT !.pc = "rateFetch"], Globals, recov, NoRet)
         [] outcome = "nowidget" -> Return(call, Globals, recov, FALSE, "nowidget")
         [] OTHER -> Set([call EXCEPT !.pc = "rateCatch"], Globals, recov, NoRet)
    /\ UNCHANGED <<readVars, build, hasSession, serverVars, dedupVars, conc>>

\* rateFilm (part_000): the in-page fetch to the widget's rate action.
RateFetch(status) ==
    /\ call.pc = "rateFetch"
    /\ UNCHANGED <<connected, launches, logins, loggedOn, openTabs>>
    /\ status \in Statuses => browser \in connected
    /\ Set([call EXCEPT !.pc = IF status = "throw" THEN "rateCatch" ELSE "rateClose",
                        !.status = status, !.posted = TRUE, !.sent = call.rating],
           Globals, recov, NoRet)
    /\ UNCHANGED <<readVars, build, hasSession, serverVars, dedupVars, conc>>

\* rateFilm (part_000): `await page.close()` after the fetch, then the status;
\* a close that throws goes to the catch block, whose own close is swallowed.
RateClose(ok) ==
    /\ call.pc = "rateClose"
    /\ UNCHANGED <<connected, launches, logins, loggedOn>>
    /\ ok => browser \in connected
    /\ openTabs' = openTabs - 1
    /\ IF ok
       THEN /\ OnStatus(call, Globals, recov)
            /\ cache' = Invalidate(call, cache)
       ELSE /\ Throw(call, Globals, recov)
            /\ cache' = cache
    /\ UNCHANGED <<cacheLog, rs, race, siteGood, build, hasSession, serverVars, dedupVars, conc>>

\* rateFilm (part_000): the catch block with a page: close it, swallow a
\* failure of the close, drop the browser.
RateCatch ==
    /\ call.pc = "rateCatch"
    /\ UNCHANGED <<connected, launches, logins, loggedOn>>
    /\ openTabs' = openTabs - 1
    /\ Throw(call, Globals, recov)
    /\ UNCHANGED <<readVars, build, hasSession, serverVars, dedupVars, conc>>

\* The browser process dies or disconnects.
BrowserCrash ==
    /\ browser \in connected
    /\ connected' = connected \ {browser}
    /\ UNCHANGED <<browser, browserLoggedIn, sessionCsrf, launches, logins, loggedOn, openTabs,
                   call, ret, recov>>
    /\ UNCHANGED <<readVars, build, hasSession, serverVars, dedupVars, conc>>

\* From now on every step the site and the browser are asked for succeeds:
\* launches, pages, logins (with a token on the page), film id lookups and
\* mutating calls.  It begins between two actions, after one that failed.
SiteSettles ==
    /\ ~siteGood
    /\ call.pc = "idle"
    /\ ret.op # "none" /\ ~ret.success
    /\ launches < MaxLaunches /\ logins < MaxLogins /\ openTabs < MaxTabs
    /\ siteGood' = TRUE
    /\ UNCHANGED <<cache, cacheLog, rs, race, build, hasSession, serverVars, dedupVars,
                   sessVars, conc>>

\* ------------------------------------------------------ concurrent callers
\* ensureBrowserLoggedIn called by several tasks of the event loop at once:
\* the handlers of server.js, which await rateFilm themselves, and the
\* handlers of part_002, whose resolver falls back to
\* resolveSlugFromImdbViaPuppeteer of part_000.  Every await of getBrowser and
\* ensureBrowserLoggedIn is a point where another caller may run.

Callers == 1..MaxCallers

\* at: each caller's position; b: its local `b`; cold: it called while no
\* connected browser was set; transcripts: login transcripts begun.
NoCallers == [at |-> [i \in Callers |-> "idle"], b |-> [i \in Callers |-> 0],
              cold |-> [i \in Callers |-> FALSE], transcripts |-> 0]

\* ensureBrowserLoggedIn after `const b = await getBrowser()`: the flag test
\* and the credentials test.
ConcAfterGetBrowser(loggedIn) ==
    IF loggedIn THEN "returned" ELSE IF ~hasSession THEN "threw" ELSE "loginPage"

\* A caller calls ensureBrowserLoggedIn; getBrowser returns the connected
\* browser or starts puppeteer.launch.
ConcEnter(i) ==
    /\ conc.at[i] = "idle"
    /\ LET up == browser # 0 /\ browser \in connected
       IN  conc' = [conc EXCEPT
                !.cold[i] = ~up,
                !.b[i] = IF up THEN browser ELSE 0,
                !.at[i] = IF up THEN ConcAfterGetBrowser(browserLoggedIn) ELSE "launching"]
    /\ UNCHANGED <<readVars, build, hasSession, serverVars, dedupVars, sessVars>>

\* The caller's puppeteer.launch settles: `browser = await puppeteer.launch()`
\* overwrites the reference, whatever it holds by now, and resets the flag.
ConcLaunch(i, ok) ==
    /\ conc.at[i] = "launching"
    /\ IF ok
       THEN /\ launches < MaxLaunches
            /\ launches' = launches + 1
            /\ connected' = connected \cup {launches + 1}
            /\ browser' = launches + 1
            /\ browserLoggedIn' = FALSE
            /\ conc' = [conc EXCEPT !.b[i] = launches + 1,
                                    !.at[i] = ConcAfterGetBrowser(FALSE)]
       ELSE /\ conc' = [conc EXCEPT !.at[i] = "threw"]
            /\ UNCHANGED <<launches, connected, browser, browserLoggedIn>>
    /\ UNCHANGED <<sessionCsrf, logins, loggedOn, openTabs, call, ret, recov>>
    /\ UNCHANGED <<readVars, build, hasSession, serverVars, dedupVars>>

\* `const page = await b.newPage()` on the caller's own `b`.
ConcLoginNewPage(i, ok) ==
    /\ conc.at[i] = "loginPage"
    /\ IF ok
       THEN /\ conc.b[i] \in connected
            /\ openTabs < MaxTabs
            /\ openTabs' = openTabs + 1
            /\ conc' = [conc EXCEPT !.at[i] = "login",
                                    !.transcripts = conc.transcripts + 1]
       ELSE /\ openTabs' = openTabs
            /\ conc' = [conc EXCEPT !.at[i] = "threw"]
    /\ UNCHANGED <<browser, connected, browserLoggedIn, sessionCsrf, launches, logins,
                   loggedOn, call, ret, recov>>
    /\ UNCHANGED <<readVars, build, hasSession, serverVars, dedupVars>>

\* The caller's login transcript ends: the flag and the token are module
\* state, written whichever instance the caller logged in on.
ConcLogin(i, outcome) ==
    /\ conc.at[i] = "login"
    /\ outcome # "fail" => conc.b[i] \in connected
    /\ outcome = "token" => build = "current" /\ logins < MaxLogins
    /\ logins' = IF outcome = "token" THEN logins + 1 ELSE logins
    /\ loggedOn' = IF outcome = "fail" THEN loggedOn ELSE loggedOn \cup {conc.b[i]}
    /\ browserLoggedIn' = IF outcome = "fail" THEN browserLoggedIn ELSE TRUE
    /\ sessionCsrf' = CASE outcome = "token" -> logins + 1
                        [] outcome = "notoken" /\ build = "current" -> 0
                        [] OTHER -> sessionCsrf
    /\ conc' = [conc EXCEPT !.at[i] = IF outcome = "fail" THEN "loginFailed"
                                      ELSE "loginClose"]
    /\ UNCHANGED <<browser, connected, launches, openTabs, call, ret, recov>>
    /\ UNCHANGED <<readVars, build, hasSession, serverVars, dedupVars>>

\* `finally { await page.close() }`, then `return b` or the pending exception.
ConcLoginClose(i, ok) ==
    /\ conc.at[i] \in {"loginClose", "loginFailed"}
    /\ ok => conc.b[i] \in connected
    /\ openTabs' = openTabs - 1
    /\ conc' = [conc EXCEPT !.at[i] = IF ok /\ conc.at[i] = "loginClose"
                                      THEN "returned" ELSE "threw"]
    /\ UNCHANGED <<browser, connected, browserLoggedIn, sessionCsrf, launches, logins,
                   loggedOn, call, ret, recov>>
    /\ UNCHANGED <<readVars, build, hasSession, serverVars, dedupVars>>

\* ------------------------------------------------------------------ cache

\* getWatchlist: `5 * 60 * 1000`; getFilmMeta: `6 * 60 * 60 * 1000`.
WatchlistTtlMs == 5 * 60 * 1000

MetaTtlMs == 6 * 60 * 60 * 1000

\* setCache that keeps the expiry of an entry the key already has.
SetCacheKeepsExpiry(c, key, value, ttlMs, t) ==
    MapSet(c, key, [value |-> value,
                    expiresAt |-> IF MapHas(c, key) THEN c[key].expiresAt ELSE t + ttlMs])

\* setCache(key, value, ttlMs) at time t on cache c: the cache it leaves.
SetCache(c, key, value, ttlMs, t) ==
    MapSet(c, key, [value |-> value, expiresAt |-> t + ttlMs])

\* getCache(key) at time t on cache c: hit is false where the code returns
\* null (no entry, or `Date.now() > entry.expiresAt`, which deletes the entry).
GetCache(c, key, t) ==
    IF ~MapHas(c, key) THEN [hit |-> FALSE, cache |-> c]
    ELSE IF t > c[key].expiresAt THEN [hit |-> FALSE, cache |-> MapDelete(c, key)]
    ELSE [hit |-> TRUE, value |-> c[key].value, cache |-> c]

\* The keys, values and lifetimes the cache specification calls with.
TestKeys == {MetaKey("s1"), MetaKey("s2")}

TestTtls == {1, 3}

\* sets: per key, the last setCache (n: how many so far; before: the expiry
\* the key had when it was called, 0 for none); get: the last getCache that
\* no setCache of its key has followed.
NoCacheLog ==
    [sets |-> [k \in TestKeys |-> [n |-> 0, value |-> "none", at |-> 0, ttl |-> 0,
                                   before |-> 0]],
     get |-> [key |-> <<"none", "none">>, at |-> 0, hit |-> FALSE, value |-> "none"]]

\* Time passes.
CacheTick ==
    /\ now < MaxCacheClock
    /\ now' = now + 1
    /\ UNCHANGED <<readVars, build, hasSession, recentRatings, imdbToSlugCache, req, arrived,
                   puppeteerQueue, puppeteerRunning, enqLog, dedupVars, sessVars, conc>>

\* One call setCache(key, value, ttl) at the current time.
CacheSet(key, value, ttl) ==
    /\ cacheLog.sets[key].n < MaxSets
    /\ cache' = SetCache(cache, key, value, ttl, now)
    /\ cacheLog' = [cacheLog EXCEPT
            !.sets[key] = [n |-> @.n + 1, value |-> value, at |-> now, ttl |-> ttl,
                           before |-> IF MapHas(cache, key) THEN cache[key].expiresAt
                                      ELSE 0],
            !.get = IF @.key = key THEN NoCacheLog.get ELSE @]
    /\ UNCHANGED <<rs, race, siteGood, build, hasSession, serverVars, dedupVars, sessVars, conc>>

\* One call getCache(key) at the current time.
CacheGet(key) ==
    LET g == GetCache(cache, key, now)
    IN  /\ cache' = g.cache
        /\ cacheLog' = [cacheLog EXCEPT !.get =
                [key |-> key, at |-> now, hit |-> g.hit,
                 value |-> IF g.hit THEN g.value ELSE "none"]]
        /\ UNCHANGED <<rs, race, siteGood, build, hasSession, serverVars, dedupVars, sessVars, conc>>

\* getWatchlist, called for the catalog while an action runs, stores its list.
StoreListing ==
    /\ cache' = SetCache(cache, WatchlistKey, <<"s1">>, WatchlistTtlMs, now)
    /\ UNCHANGED <<cacheLog, rs, race, siteGood, build, hasSession, serverVars, dedupVars, sessVars, conc>>

\* getUserRating stores the stars it read for the film.
StoreUserRating ==
    /\ cache' = SetCache(cache, UserRatingKey, "4", WatchlistTtlMs, now)
    /\ UNCHANGED <<cacheLog, rs, race, siteGood, build, hasSession, serverVars, dedupVars, sessVars, conc>>

\* ------------------------------------------------------------ read paths
\* resolveSlugFromImdb with getWatchlist and getFilmMeta inlined, one call
\* at a time, a step per network request.

\* What a listing page holds: films in site order.
PageContents == {<<>>, <<"s1", "s2">>, <<"s2">>}

\* What fetchWatchlistPage does: it throws (ok false) or returns {films, hasNext}.
PageOutcomes ==
    [ok : {TRUE}, films : PageContents, hasNext : BOOLEAN]
        \cup {[ok |-> FALSE, films |-> <<>>, hasNext |-> FALSE]}

\* What the request of getFilmMeta does: it fails, or the page carries an
\* IMDb link or none.
MetaOutcomes == {"fail", "none"} \cup Ids

\* What a fallback request does: it fails, the page names no film, or it
\* names the film of the identifier.
FallbackOutcomes == {"fail", "nomatch", "found"}

\* Where the fallback of resolveSlugFromImdb begins: the first request of
\* resolveSlugFromImdbViaPuppeteer (letterboxd.js), its browser page
\* (part_000), the search request (server.js).
FallbackPc(b) ==
    IF b = "current" THEN "fallback1"
    ELSE IF b = "legacy" THEN "fallbackBrowser" ELSE "search"

FallbackPcs == {"fallback1", "fallback2", "fallbackBrowser", "search"}

\* Locals: imdbId, page, allFilms, watchlist, i (the film the scan is at).
\* History of the call: hadEntry (the identity map had the id), pagesReq
\* (page numbers requested), served (what the pages returned), stopped (why
\* paging ended), visited (<<slug, meta.imdbId, origin>> per film the scan
\* compared), fallbacks (calls of the fallback), by (the strategy that
\* produced the slug), out (the slug returned, "none" for null), threw,
\* light (what the redirect-following request of the fallback gave: none
\* while it was not sent, else slug / noslug), viaBrowser (the fallback
\* opened a page of the shared browser), cut (the listing stored last was
\* cut short by a page that failed; kept from call to call).
\* calls and ticks count the calls and the clock moves of the run.
IdleRead ==
    [imdbId |-> "none", pc |-> "idle", page |-> 0, allFilms |-> <<>>,
     watchlist |-> <<>>, i |-> 0, hadEntry |-> FALSE, pagesReq |-> <<>>,
     served |-> <<>>, stopped |-> "none", visited |-> <<>>, fallbacks |-> 0,
     by |-> "none", out |-> "none", threw |-> FALSE, light |-> "none",
     viaBrowser |-> FALSE, cut |-> FALSE, calls |-> 0, ticks |-> 0]

\* The films of the pages ps, page after page.
RECURSIVE Flatten(_)
Flatten(ps) == IF ps = <<>> THEN <<>> ELSE Head(ps).films \o Flatten(Tail(ps))

\* `return slug` of resolveSlugFromImdb.
Returned(r, slug, by) == [r EXCEPT !.pc = "idle", !.out = slug, !.by = by]

\* A resolver that gives up without fallback when the listing came back empty.
StartFallbackOnlyAfterFilms(r, c, m) ==
    [rs |-> IF r.watchlist = <<>> THEN Returned(r, "none", "none")
            ELSE [r EXCEPT !.pc = FallbackPc(build), !.fallbacks = @ + 1],
     cache |-> c, map |-> m]

\* The scan is over without a match: resolveSlugFromImdbViaPuppeteer (the
\* search request in server.js) is called.
StartFallback(r, c, m) ==
    [rs |-> [r EXCEPT !.pc = FallbackPc(build), !.fallbacks = @ + 1,
                      !.viaBrowser = (FallbackPc(build) = "fallbackBrowser")],
     cache |-> c, map |-> m]

RECURSIVE Scan(_, _, _, _), Visit(_, _, _, _, _, _)

\* `for (const film of watchlist)`, from film r.i on, at time t with cache c
\* and identity map m: getFilmMeta answers from the cache or sends its
\* request; after the last film the fallback begins.
Scan(r, c, m, t) ==
    IF r.i > Len(r.watchlist) THEN StartFallback(r, c, m)
    ELSE LET g == GetCache(c, MetaKey(r.watchlist[r.i]), t)
         IN  IF g.hit THEN Visit(r, g.cache, m, t, g.value, "cache")
             ELSE [rs |-> [r EXCEPT !.pc = "meta"], cache |-> g.cache, map |-> m]

\* A scan that stores a match and goes on to the next film.
VisitNoReturn(r, c, m, t, imdbId, origin) ==
    LET slug == r.watchlist[r.i]
        v == [r EXCEPT !.visited = Append(@, <<slug, imdbId, origin>>), !.i = @ + 1]
    IN  Scan(v, c, IF imdbId = r.imdbId THEN MapSet(m, r.imdbId, slug) ELSE m, t)

\* `if (meta.imdbId === imdbId)`: the match is stored and returned, any other
\* film is passed over.
Visit(r, c, m, t, imdbId, origin) ==
    LET slug == r.watchlist[r.i]
        v == [r EXCEPT !.visited = Append(@, <<slug, imdbId, origin>>)]
    IN  IF imdbId = r.imdbId
        THEN [rs |-> Returned(v, slug, "scan"), cache |-> c,
              map |-> MapSet(m, r.imdbId, slug)]
        ELSE Scan([v EXCEPT !.i = @ + 1], c, m, t)

\* A getWatchlist that adds its films to the list the cache already holds.
EndListingAppends(r, c, m, t) ==
    LET old == IF MapHas(c, WatchlistKey) THEN c[WatchlistKey].value ELSE <<>>
    IN  Scan([r EXCEPT !.watchlist = r.allFilms, !.i = 1],
             SetCache(c, WatchlistKey, old \o r.allFilms, WatchlistTtlMs, t), m, t)

\* A getWatchlist that does not cache a list that a failed page cut short.
EndListingSkipsTruncated(r, c, m, t) ==
    Scan([r EXCEPT !.watchlist = r.allFilms, !.i = 1],
         IF r.stopped = "failed" THEN c
         ELSE SetCache(c, WatchlistKey, r.allFilms, WatchlistTtlMs, t), m, t)

\* getWatchlist is over with list r.allFilms: it is cached and the scan begins.
EndListing(r, c, m, t) ==
    Scan([r EXCEPT !.watchlist = r.allFilms, !.i = 1],
         SetCache(c, WatchlistKey, r.allFilms, WatchlistTtlMs, t), m, t)

\* A loop that asks for the same page again when its fetch failed.
AfterPageRetries(r, o) ==
    IF ~o.ok THEN [r EXCEPT !.pagesReq = Append(@, r.page)]
    ELSE LET a == [r EXCEPT !.allFilms = @ \o o.films, !.served = Append(@, o),
                            !.page = @ + 1]
         IN  IF o.hasNext
             THEN [a EXCEPT !.pagesReq = Append(@, a.page)]
             ELSE [a EXCEPT !.pc = "listed", !.stopped = "nonext"]

\* The body of `while (hasNext)` for what fetchWatchlistPage did: the call
\* record it leaves, still paging (pc "listing") or done.
AfterPage(r, o) ==
    IF ~o.ok THEN [r EXCEPT !.pc = "listed", !.stopped = "failed", !.cut = TRUE]
    ELSE LET a == [r EXCEPT !.allFilms = @ \o o.films, !.served = Append(@, o),
                            !.page = @ + 1]
         IN  IF o.hasNext
             THEN [a EXCEPT !.pagesReq = Append(@, a.page)]
             ELSE [a EXCEPT !.pc = "listed", !.stopped = "nonext", !.cut = FALSE]

\* getFilmMeta that caches the all-null record of a failed request.
FilmMetaCachesFailure(c, slug, o, t) ==
    IF o = "fail"
    THEN [imdbId |-> "none", cache |-> SetCache(c, MetaKey(slug), "none", MetaTtlMs, t)]
    ELSE [imdbId |-> o, cache |-> SetCache(c, MetaKey(slug), o, MetaTtlMs, t)]

\* getFilmMeta for what its request did: the imdbId of the record it returns
\* and the cache it leaves.  A failure returns the all-null record, uncached.
FilmMeta(c, slug, o, t) ==
    IF o = "fail" THEN [imdbId |-> "none", cache |-> c]
    ELSE [imdbId |-> o, cache |-> SetCache(c, MetaKey(slug), o, MetaTtlMs, t)]

\* resolveSlugFromImdb(imdbId) up to its first request, for the call record
\* r0, cache c and identity map m at time t: a hit of the identity map
\* returns, a cached listing is scanned, else page 1 is requested.
BeginResolve(r0, c, m, t) ==
    LET g == GetCache(c, WatchlistKey, t)
    IN  IF MapHas(m, r0.imdbId)
        THEN [rs |-> Returned(r0, m[r0.imdbId], "map"), cache |-> c, map |-> m]
        ELSE IF g.hit
        THEN Scan([r0 EXCEPT !.watchlist = g.value, !.i = 1, !.stopped = "cached"],
                  g.cache, m, t)
        ELSE [rs |-> [r0 EXCEPT !.pc = "listing", !.page = 1, !.pagesReq = <<1>>],
              cache |-> g.cache, map |-> m]

\* getWatchlist after fetchWatchlistPage did o: the loop goes on, or the
\* list is cached and scanned.
PageSettled(r, o, c, m, t) ==
    LET a == AfterPage(r, o)
    IN  IF a.pc = "listing" THEN [rs |-> a, cache |-> c, map |-> m]
        ELSE EndListing(a, c, m, t)

\* The scan after the request of getFilmMeta(film.slug) did o.
MetaSettled(r, o, c, m, t) ==
    LET f == FilmMeta(c, r.watchlist[r.i], o, t)
    IN  Visit(r, f.cache, m, t, f.imdbId, IF o = "fail" THEN "failed" ELSE "fetched")

\* The fallback after its first request did o.  A slug is stored and
\* returned; otherwise resolveSlugFromImdbViaPuppeteer of letterboxd.js goes
\* on to its second request and the other two return null.
FirstSettled(r, o, c, m) ==
    IF o = "found"
    THEN [rs |-> Returned([r EXCEPT !.light = IF r.pc = "fallback1" THEN "slug" ELSE @],
                          SiteSlug(r.imdbId), "fallback"),
          cache |-> c, map |-> MapSet(m, r.imdbId, SiteSlug(r.imdbId))]
    ELSE [rs |-> IF r.pc = "fallback1"
                 THEN [r EXCEPT !.pc = "fallback2", !.light = "noslug"]
                 ELSE Returned(r, "none", "none"),
          cache |-> c, map |-> m]

\* The fallback after its second request (og:url) did o.
SecondSettled(r, o, c, m) ==
    IF o = "found"
    THEN [rs |-> Returned(r, SiteSlug(r.imdbId), "fallback"),
          cache |-> c, map |-> MapSet(m, r.imdbId, SiteSlug(r.imdbId))]
    ELSE [rs |-> Returned(r, "none", "none"), cache |-> c, map |-> m]

\* The step x of the one call of rs is taken.
ReadStep(x) ==
    /\ rs' = x.rs
    /\ cache' = x.cache
    /\ imdbToSlugCache' = x.map
    /\ UNCHANGED <<cacheLog, race, siteGood, build, hasSession, now, recentRatings, req, arrived,
                   puppeteerQueue, puppeteerRunning, enqLog, dedupVars, sessVars, conc>>

\* resolveSlugFromImdb(imdbId) is called.
ResolveSlugFromImdb(imdbId) ==
    /\ rs.pc = "idle"
    /\ rs.calls < MaxResolves
    /\ ReadStep(BeginResolve([IdleRead EXCEPT !.imdbId = imdbId, !.calls = rs.calls + 1,
                                              !.ticks = rs.ticks, !.cut = rs.cut,
                                              !.hadEntry = MapHas(imdbToSlugCache, imdbId)],
                             cache, imdbToSlugCache, now))

\* fetchWatchlistPage(username, page) settles.
FetchWatchlistPage(o) ==
    /\ rs.pc = "listing"
    /\ o.hasNext => rs.page < MaxPages
    /\ ReadStep(PageSettled(rs, o, cache, imdbToSlugCache, now))

\* getFilmMeta that lets the failure of its request escape: the catch of
\* resolveSlugFromImdb ends the scan.
FetchFilmMetaThrows(o) ==
    /\ rs.pc = "meta"
    /\ LET f == FilmMeta(cache, rs.watchlist[rs.i], o, now)
       IN  ReadStep(IF o = "fail" THEN StartFallback(rs, cache, imdbToSlugCache)
                    ELSE Visit(rs, f.cache, imdbToSlugCache, now, f.imdbId, "fetched"))

\* The request of getFilmMeta(film.slug) settles.
FetchFilmMeta(o) ==
    /\ rs.pc = "meta"
    /\ ReadStep(MetaSettled(rs, o, cache, imdbToSlugCache, now))

\* The first request of the fallback settles.
FallbackFirst(o) ==
    /\ rs.pc \in {"fallback1", "fallbackBrowser", "search"}
    /\ ReadStep(FirstSettled(rs, o, cache, imdbToSlugCache))

\* The second request of resolveSlugFromImdbViaPuppeteer settles.
FallbackSecond(o) ==
    /\ rs.pc = "fallback2"
    /\ ReadStep(SecondSettled(rs, o, cache, imdbToSlugCache))

\* Time passes between two calls: the lifetime of a listing entry to the
\* millisecond, or one millisecond more.
ReadTick(d) ==
    /\ rs.pc = "idle"
    /\ rs.calls > 0
    /\ rs.ticks < MaxReadTicks
    /\ now' = now + d
    /\ rs' = [rs EXCEPT !.ticks = @ + 1]
    /\ UNCHANGED <<cache, cacheLog, race, siteGood, build, hasSession, recentRatings, imdbToSlugCache, req,
                   arrived, puppeteerQueue, puppeteerRunning, enqLog, dedupVars, sessVars, conc>>

\* ------------------------------------------------- two overlapping calls
\* Two /rate handlers call resolveSlugFromImdb for the same identifier; the
\* awaits of one call interleave with those of the other.  The requests are
\* reads: the site answers a request the way it answered it before (memo).

Racers == {1, 2}

RaceId == "tt1"

\* What the site answered so far: per listing page, per film page, per
\* fallback request.
NoMemo == [pages |-> EmptyMap, meta |-> EmptyMap, fb |-> EmptyMap]

\* c: the two call records; overlap: a call began while the other was under way.
NoRace == [c |-> [i \in Racers |-> IdleRead], memo |-> NoMemo, overlap |-> FALSE]

\* The site may answer o to request k: it gave no other answer before.
Answers(m, k, o) == MapHas(m, k) => m[k] = o

\* The step x of call i is taken, the site having answered as in memo.
RaceStep(i, x, memo) ==
    /\ race' = [race EXCEPT !.c[i] = x.rs, !.memo = memo,
                            !.overlap = @ \/ (race.c[i].pc = "idle" /\
                                              \E j \in Racers \ {i} : race.c[j].pc # "idle")]
    /\ cache' = x.cache
    /\ imdbToSlugCache' = x.map
    /\ UNCHANGED <<cacheLog, rs, siteGood, build, hasSession, now, recentRatings, req, arrived,
                   puppeteerQueue, puppeteerRunning, enqLog, dedupVars, sessVars, conc>>

\* Call i of resolveSlugFromImdb begins.
RaceBegin(i) ==
    /\ race.c[i].pc = "idle"
    /\ race.c[i].calls = 0
    /\ RaceStep(i, BeginResolve([IdleRead EXCEPT !.imdbId = RaceId, !.calls = 1,
                                     !.hadEntry = MapHas(imdbToSlugCache, RaceId)],
                                cache, imdbToSlugCache, now),
                race.memo)

\* fetchWatchlistPage of call i settles.
RacePage(i, o) ==
    LET r == race.c[i]
    IN  /\ r.pc = "listing"
        /\ o.hasNext => r.page < MaxPages
        /\ Answers(race.memo.pages, r.page, o)
        /\ RaceStep(i, PageSettled(r, o, cache, imdbToSlugCache, now),
                    [race.memo EXCEPT !.pages = MapSet(@, r.page, o)])

\* The request of getFilmMeta of call i settles.
RaceMeta(i, o) ==
    LET r == race.c[i]
    IN  /\ r.pc = "meta"
        /\ Answers(race.memo.meta, r.watchlist[r.i], o)
        /\ RaceStep(i, MetaSettled(r, o, cache, imdbToSlugCache, now),
                    [race.memo EXCEPT !.meta = MapSet(@, r.watchlist[r.i], o)])

\* The first fallback request of call i settles.
RaceFallbackFirst(i, o) ==
    LET r == race.c[i]
    IN  /\ r.pc \in {"fallback1", "fallbackBrowser", "search"}
        /\ Answers(race.memo.fb, "first", o)
        /\ RaceStep(i, FirstSettled(r, o, cache, imdbToSlugCache),
                    [race.memo EXCEPT !.fb = MapSet(@, "first", o)])

\* The second fallback request of call i settles.
RaceFallbackSecond(i, o) ==
    LET r == race.c[i]
    IN  /\ r.pc = "fallback2"
        /\ Answers(race.memo.fb, "second", o)
        /\ RaceStep(i, SecondSettled(r, o, cache, imdbToSlugCache),
                    [race.memo EXCEPT !.fb = MapSet(@, "second", o)])

RECURSIVE RunAlone(_, _, _)

\* A call at x run to its end with nothing else in between, the site
\* answering as in memo at time t.
RunAlone(x, memo, t) ==
    LET r == x.rs
    IN  IF r.pc = "listing"
        THEN RunAlone(PageSettled(r, memo.pages[r.page], x.cache, x.map, t), memo, t)
        ELSE IF r.pc = "meta"
        THEN RunAlone(MetaSettled(r, memo.meta[r.watchlist[r.i]], x.cache, x.map, t), memo, t)
        ELSE IF r.pc \in {"fallback1", "fallbackBrowser", "search"}
        THEN RunAlone(FirstSettled(r, memo.fb["first"], x.cache, x.map), memo, t)
        ELSE IF r.pc = "fallback2"
        THEN RunAlone(SecondSettled(r, memo.fb["second"], x.cache, x.map), memo, t)
        ELSE x

\* The two calls one after the other from empty cache and identity map.
OneAfterTheOther(memo, t) ==
    LET r0 == [IdleRead EXCEPT !.imdbId = RaceId, !.calls = 1]
        a == RunAlone(BeginResolve(r0, EmptyMap, EmptyMap, t), memo, t)
        b == RunAlone(BeginResolve(r0, a.cache, a.map, t), memo, t)
    IN  [first |-> a.rs.out, second |-> b.rs.out, cache |-> b.cache, map |-> b.map]

\* ---------------------------------------------------------- specification

\* The state after the modules are loaded, for a snapshot out of bs.
InitState(bs) ==
    /\ build \in bs
    /\ hasSession \in BOOLEAN
    /\ now = 1
    /\ recentRatings = [k \in Keys |-> 0]
    /\ imdbToSlugCache = EmptyMap
    /\ req = [r \in Reqs |-> NewReq]
    /\ arrived = 0
    /\ puppeteerQueue = <<>>
    /\ puppeteerRunning = FALSE
    /\ enqLog = <<>>
    /\ lastDedup = NoDedup
    /\ lastAccepted = [k \in Keys |-> 0]
    /\ browser = 0
    /\ connected = {}
    /\ browserLoggedIn = FALSE
    /\ sessionCsrf = 0
    /\ launches = 0
    /\ logins = 0
    /\ openTabs = 0
    /\ call = IdleCall
    /\ ret = NoRet
    /\ recov = NoRecov
    /\ loggedOn = {}
    /\ conc = NoCallers
    /\ cache = EmptyMap
    /\ cacheLog = NoCacheLog
    /\ race = NoRace
    /\ siteGood = FALSE
    /\ rs = IdleRead

Init == InitState(Builds)

Next ==
    \/ \E r \in Reqs, id \in Ids, a \in ActionsOf(build), gap \in Gaps :
            Arrive(r, id, a, gap)
    \/ \E r \in Reqs, hit \in BOOLEAN : ResolveScan(r, hit)
    \/ \E r \in Reqs, found \in BOOLEAN : ResolveFallback(r, found)
    \/ \E r \in Reqs : JobPost(r)
    \/ \E r \in Reqs, ok \in BOOLEAN : JobSettle(r, ok)
    \/ \E r \in Reqs : DrainResume(r)

Spec == Init /\ [][Next]_vars

\* The handlers of part_001 with the credentials set, so that every request
\* gets as far as the dedup, for /rate/:imdbId/5 and /watchlist/add/:imdbId.
InitCurrent == InitState({"current"}) /\ hasSession

NextCurrent ==
    \/ \E r \in Reqs, id \in Ids, a \in {"5", "watchlist-add"}, gap \in Gaps :
            Arrive(r, id, a, gap)
    \/ \E r \in Reqs, hit \in BOOLEAN : ResolveScan(r, hit)
    \/ \E r \in Reqs, found \in BOOLEAN : ResolveFallback(r, found)
    \/ \E r \in Reqs : JobPost(r)
    \/ \E r \in Reqs, ok \in BOOLEAN : JobSettle(r, ok)
    \/ \E r \in Reqs : DrainResume(r)

SpecCurrent == InitCurrent /\ [][NextCurrent]_vars

\* ------------------------------------------------- the queue on its own

\* enqueuePuppeteer(fn) called by any caller at any moment; a is the action
\* the job performs.
Enqueue(r, a) ==
    /\ r = Len(enqLog) + 1
    /\ r <= MaxJobs
    /\ EnqueuePuppeteer(r, [req EXCEPT ![r] = [NewReq EXCEPT !.action = a, !.pc = "queued"]])
    /\ UNCHANGED <<readVars, build, hasSession, now, recentRatings, imdbToSlugCache,
                   arrived, dedupVars, sessVars, conc>>

NextQueue ==
    \/ \E r \in Reqs, a \in ActionsOf(build) : Enqueue(r, a)
    \/ \E r \in Reqs : JobPost(r)
    \/ \E r \in Reqs, ok \in BOOLEAN : JobSettle(r, ok)
    \/ \E r \in Reqs : DrainResume(r)

SpecQueue == Init /\ [][NextQueue]_vars

\* Every job terminates, and the continuation of the drain after `await fn()`
\* is run by the event loop once the job's promise has settled.
SpecQueueLive ==
    /\ SpecQueue
    /\ WF_vars(\E r \in Reqs, ok \in BOOLEAN : JobSettle(r, ok))
    /\ WF_vars(\E r \in Reqs : DrainResume(r))

\* ---------------------------------------------------- server.js on its own

InitOldest == InitState({"oldest"})

NextOldest ==
    \/ \E r \in Reqs, id \in Ids, a \in ActionsOf(build) : ArriveOldest(r, id, a)
    \/ \E r \in Reqs, hit \in BOOLEAN : ResolveScanOldest(r, hit)
    \/ \E r \in Reqs, found \in BOOLEAN : ResolveSearchOldest(r, found)
    \/ \E r \in Reqs : JobPost(r)
    \/ \E r \in Reqs, ok \in BOOLEAN : JobSettle(r, ok)
    \/ \E r \in Reqs : RespondOldest(r)

SpecOldest == InitOldest /\ [][NextOldest]_vars

\* ------------------------------------------- deduplicateRating on its own

\* Time passes.
DedupTick(d) ==
    /\ now + d <= MaxClock
    /\ now' = now + d
    /\ UNCHANGED <<readVars, build, hasSession, recentRatings, imdbToSlugCache, req, arrived,
                   puppeteerQueue, puppeteerRunning, enqLog, dedupVars, sessVars, conc>>

\* One call deduplicateRating(imdbId, action) at the current time.
DedupCall(imdbId, action) ==
    LET key == <<imdbId, action>>
        d == DeduplicateRating(imdbId, action, now, recentRatings)
        rej == IF lastDedup.key = key /\ ~lastDedup.ok
               THEN lastDedup.rejBefore + 1 ELSE 0
    IN  /\ rej <= MaxRejects
        /\ recentRatings' = d.recent
        /\ lastDedup' = [key |-> key, at |-> now, ok |-> d.ok,
                         prev |-> lastAccepted[key], rejBefore |-> rej]
        /\ lastAccepted' = IF d.ok THEN [lastAccepted EXCEPT ![key] = now]
                           ELSE lastAccepted
        /\ UNCHANGED <<readVars, build, hasSession, now, imdbToSlugCache, req, arrived,
                       puppeteerQueue, puppeteerRunning, enqLog, sessVars, conc>>

NextDedup ==
    \/ \E d \in Ticks : DedupTick(d)
    \/ \E k \in DedupKeys : DedupCall(k[1], k[2])

SpecDedup == Init /\ [][NextDedup]_vars

\* ---------------------------------------------------- the cache on its own

NextCache ==
    \/ CacheTick
    \/ \E k \in TestKeys, v \in Ids, ttl \in TestTtls : CacheSet(k, v, ttl)
    \/ \E k \in TestKeys : CacheGet(k)

\* The cache is the same code in both libraries and reads no credentials.
InitCache == InitState({"current"}) /\ hasSession

SpecCache == InitCache /\ [][NextCache]_vars

\* ------------------------------------------------- the resolver on its own

\* resolveSlugFromImdb is only called with the credentials set.  Of the two
\* servers with the same resolver, part_001 and part_002, the first runs.
InitResolve == InitState({"current", "oldest"}) /\ hasSession

NextResolve ==
    \/ \E id \in Ids : ResolveSlugFromImdb(id)
    \/ \E o \in PageOutcomes : FetchWatchlistPage(o)
    \/ \E o \in MetaOutcomes : FetchFilmMeta(o)
    \/ \E o \in FallbackOutcomes : FallbackFirst(o)
    \/ \E o \in FallbackOutcomes : FallbackSecond(o)
    \/ \E d \in {WatchlistTtlMs, WatchlistTtlMs + 1} : ReadTick(d)

SpecResolve == InitResolve /\ [][NextResolve]_vars

\* Two overlapping calls of the current resolver for one identifier.
InitRace == InitState({"current"}) /\ hasSession

NextRace ==
    \/ \E i \in Racers : RaceBegin(i)
    \/ \E i \in Racers : \E o \in PageOutcomes : RacePage(i, o)
    \/ \E i \in Racers : \E o \in MetaOutcomes : RaceMeta(i, o)
    \/ \E i \in Racers : \E o \in FallbackOutcomes : RaceFallbackFirst(i, o)
    \/ \E i \in Racers : \E o \in FallbackOutcomes : RaceFallbackSecond(i, o)

SpecRace == InitRace /\ [][NextRace]_vars

\* ------------------------------------------------- the session on its own

NextSession ==
    \/ \E op \in OpsOf(build) : \E stars \in StarsFor(op) : Call(op, stars)
    \/ \E ok \in BOOLEAN : Launch(ok)
    \/ \E ok \in BOOLEAN : LoginNewPage(ok)
    \/ \E o \in {"token", "notoken", "fail"} : LoginTranscript(o)
    \/ \E ok \in BOOLEAN : LoginClose(ok)
    \/ \E found \in BOOLEAN : FilmId(found)
    \/ \E ok \in BOOLEAN : PostNewPage(ok)
    \/ \E ok \in BOOLEAN : PostGoto(ok)
    \/ \E st \in Statuses \cup {"throw"} : PostFetch(st)
    \/ \E ok \in BOOLEAN : PostClose(ok)
    \/ \E ok \in BOOLEAN : RateNewPage(ok)
    \/ \E o \in {"widget", "nowidget", "throw"} : RateNavigate(o)
    \/ \E st \in Statuses \cup {"throw"} : RateFetch(st)
    \/ \E ok \in BOOLEAN : RateClose(ok)
    \/ RateCatch
    \/ BrowserCrash

SpecSession == Init /\ [][NextSession]_vars

\* The session of letterboxd.js while the site misbehaves and after it has
\* settled; callers go on calling actions (the fairness of the run), with
\* star values rateFilm accepts once the site has settled.
InitRecover == InitState({"current"}) /\ hasSession

NextRecover ==
    \/ \E op \in OpsOf(build) : \E stars \in StarsFor(op) \cap {"5", "0", "none"} :
            /\ siteGood /\ op = "rateFilm" => RatingValue(stars) # 0
            /\ Call(op, stars)
    \/ \E ok \in BOOLEAN : (siteGood => ok) /\ Launch(ok)
    \/ \E ok \in BOOLEAN : (siteGood => ok) /\ LoginNewPage(ok)
    \/ \E o \in {"token", "notoken", "fail"} : (siteGood => o = "token") /\ LoginTranscript(o)
    \/ \E ok \in BOOLEAN : (siteGood => ok) /\ LoginClose(ok)
    \/ \E found \in BOOLEAN : (siteGood => found) /\ FilmId(found)
    \/ \E ok \in BOOLEAN : (siteGood => ok) /\ PostNewPage(ok)
    \/ \E ok \in BOOLEAN : (siteGood => ok) /\ PostGoto(ok)
    \/ \E st \in Statuses \cup {"throw"} : (siteGood => st = "ok200") /\ PostFetch(st)
    \/ \E ok \in BOOLEAN : (siteGood => ok) /\ PostClose(ok)
    \/ ~siteGood /\ BrowserCrash
    \/ SiteSettles

SpecRecover == InitRecover /\ [][NextRecover]_vars /\ WF_vars(NextRecover)

\* The session of letterboxd.js with the reads that fill the cache beside
\* it; rateFilm is called with one accepted and one unknown star value.
InitSessionCache == InitState({"current"}) /\ hasSession

NextSessionCache ==
    \/ \E op \in OpsOf(build) : \E stars \in StarsFor(op) \cap {"5", "0", "none"} :
            Call(op, stars)
    \/ \E ok \in BOOLEAN : Launch(ok)
    \/ \E ok \in BOOLEAN : LoginNewPage(ok)
    \/ \E o \in {"token", "notoken", "fail"} : LoginTranscript(o)
    \/ \E ok \in BOOLEAN : LoginClose(ok)
    \/ \E found \in BOOLEAN : FilmId(found)
    \/ \E ok \in BOOLEAN : PostNewPage(ok)
    \/ \E ok \in BOOLEAN : PostGoto(ok)
    \/ \E st \in Statuses \cup {"throw"} : PostFetch(st)
    \/ \E ok \in BOOLEAN : PostClose(ok)
    \/ BrowserCrash
    \/ StoreListing
    \/ StoreUserRating

SpecSessionCache == InitSessionCache /\ [][NextSessionCache]_vars

\* ------------------------------------------ concurrent callers on their own

NextConc ==
    \/ \E i \in Callers : ConcEnter(i)
    \/ \E i \in Callers, ok \in BOOLEAN : ConcLaunch(i, ok)
    \/ \E i \in Callers, ok \in BOOLEAN : ConcLoginNewPage(i, ok)
    \/ \E i \in Callers, o \in {"token", "notoken", "fail"} : ConcLogin(i, o)
    \/ \E i \in Callers, ok \in BOOLEAN : ConcLoginClose(i, ok)

SpecConc == Init /\ [][NextConc]_vars

\* ------------------------------------------------------- claims C1 .. C5

Executing == {r \in Reqs : req[r].pc \in ExecutingPcs}

Started(r) == req[r].pc \in ExecutingPcs \cup CompletePcs

\* C1: at every moment at most one job handed to enqueue is executing,
\* whenever the enqueue calls arrive (also while the running job is suspended
\* at an await, and while the drain is between the end of a job and its next
\* look at the queue).
C1_OneJobAtATime == Cardinality(Executing) <= 1

\* C1's case: a job is suspended at an await, an enqueue call made meanwhile
\* has left a second job waiting, and a third arrived while an earlier job
\* had settled and the drain had not yet resumed.
C1_Witness ==
    \E r1, r2 \in Reqs :
        /\ req[r1].pc \in ExecutingPcs
        /\ req[r2].pc = "queued"
        /\ \E r0 \in Reqs : req[r0].pc = "done"

\* C2: jobs run in the order of the enqueue calls: a job that has started
\* finds every job enqueued before it already returned or thrown, and the
\* jobs still waiting are the not yet started ones, oldest first.
C2_FifoOrder ==
    /\ \A i, j \in 1..Len(enqLog) :
            (i < j /\ Started(enqLog[j])) => req[enqLog[i]].pc \in CompletePcs
    /\ puppeteerQueue = SelectSeq(enqLog, LAMBDA r : req[r].pc = "queued")

\* C2's case: three jobs were enqueued, the first two have completed and the
\* third is running.
C2_Witness ==
    /\ Len(enqLog) >= 3
    /\ req[enqLog[1]].pc = "done"
    /\ req[enqLog[2]].pc = "done"
    /\ req[enqLog[3]].pc \in ExecutingPcs

\* An operation of request r that logs in or opens a tab on the shared
\* browser is in progress: its rateFilm / addToWatchlist job, or (legacy
\* snapshot) the resolveSlugFromImdbViaPuppeteer call of its handler.
UsesBrowser(r) == req[r].pc \in ExecutingPcs \cup {"fallbackBrowser"}

\* C3: the browser surface is used by at most one task at a time, because
\* every operation that uses it runs inside a queue job.
C3_BrowserOneTaskAtATime == Cardinality({r \in Reqs : UsesBrowser(r)}) <= 1

SameKey(r1, r2) ==
    /\ req[r1].imdbId = req[r2].imdbId
    /\ req[r1].action = req[r2].action

\* Requests r1 and r2 are two watchlist-add requests for one identifier that
\* arrived less than the dedup window apart, r1 first, with credentials set
\* and no request of that key in the window before r1.
Burst(r1, r2) ==
    /\ hasSession
    /\ r1 < r2
    /\ r2 <= arrived
    /\ req[r1].action = "watchlist-add"
    /\ SameKey(r1, r2)
    /\ req[r2].at - req[r1].at < DedupWindowMs
    /\ \A r0 \in 1..(r1 - 1) :
            SameKey(r0, r1) => req[r1].at - req[r0].at >= DedupWindowMs

\* C4 as stated: of two such requests only the first is accepted and, once
\* the identifier was resolved and the job has run, exactly one mutating call
\* has been issued.
C4_ExactlyOnePost ==
    \A r1, r2 \in Reqs :
        (Burst(r1, r2) /\ req[r1].pc = "done") =>
            /\ req[r1].accepted /\ ~req[r2].accepted
            /\ req[r1].posts + req[r2].posts = 1

\* C4 as amended: of two such requests only the first is accepted, the
\* second issues no mutating call and the first at most one (none when its
\* job fails before the call, or the identifier is not resolved).
C4_AtMostOnePost ==
    \A r1, r2 \in Reqs :
        Burst(r1, r2) =>
            /\ req[r1].accepted /\ ~req[r2].accepted
            /\ req[r2].pc = "duplicate"
            /\ req[r1].posts + req[r2].posts <= 1
            /\ (req[r1].posts = 1 => req[r1].pc \in {"posted", "settled", "done"})

\* C4's case: two add requests for one identifier in the window, the first
\* one's job has run and issued its call, the second was rejected.
C4_Witness ==
    \E r1, r2 \in Reqs :
        /\ Burst(r1, r2)
        /\ req[r1].pc = "done"
        /\ req[r1].posts = 1
        /\ req[r2].pc = "duplicate"

\* C5: a call of deduplicateRating returns true when its key was never
\* accepted before or was last accepted at least 5000 ms earlier, false
\* otherwise; the window is measured from the last accepted call, which a
\* rejected call leaves where it is.
C5_DedupWindow ==
    /\ lastDedup.key \in Keys =>
            (lastDedup.ok <=> (lastDedup.prev = 0
                               \/ lastDedup.at - lastDedup.prev >= DedupWindowMs))
    /\ \A k \in DedupKeys : recentRatings[k] = lastAccepted[k]

\* C5's case: a key was accepted, then rejected four times in its window
\* (the last time 1 ms before the window's end), then accepted again exactly
\* when the window had elapsed.
C5_Witness ==
    /\ lastDedup.ok
    /\ lastDedup.prev # 0
    /\ lastDedup.rejBefore >= 4
    /\ lastDedup.at - lastDedup.prev = DedupWindowMs

\* ------------------------------------------------------ claims C6 .. C10

C8_NoTokenUnlessLoggedIn == ~browserLoggedIn => sessionCsrf = 0

\* C9: when a step of rateFilm or of addToWatchlist threw, then on the
\* action's return the browser reference is dropped and the session is not
\* logged in.
C9_ExceptionDiscardsBrowser ==
    call.pc = "idle" /\ ret.cause = "exception"
        => browser = 0 /\ ~browserLoggedIn

\* C10: whenever no action is in progress, no page opened by an action is
\* still waiting for its close.
C10_TabsClosed == call.pc = "idle" => openTabs = 0

\* ----------------------------------------------------- claims C11 .. C20

\* C11: when all callers called ensureBrowserLoggedIn while no connected
\* browser was set, and all have returned, then one browser was launched, one
\* login transcript was run and every caller holds the same instance.
C11_SingleFlightLaunch ==
    (\A i \in Callers : conc.at[i] = "returned" /\ conc.cold[i])
        => /\ launches = 1
           /\ conc.transcripts = 1
           /\ \A i, j \in Callers : conc.b[i] = conc.b[j]

\* C12: an ensureBrowserLoggedIn call made while the session is logged in and
\* the browser connected returns at once, with no launch and no login; the
\* login transcript only ever runs on a session that is not logged in.
C12_LoggedInSessionReused ==
    /\ [](call.pc \in {"loginPage", "login"} => ~browserLoggedIn)
    /\ [][(call.pc \in {"idle", "filmId"} /\ browserLoggedIn /\ browser \in connected)
            => /\ call'.pc \notin EnsurePcs
               /\ launches' = launches
               /\ logins' = logins
               /\ loggedOn' = loggedOn]_vars

\* puppeteerPost got the browser back from ensureBrowserLoggedIn on the
\* session its action had logged in: one launch, one login so far.
C12_Witness ==
    /\ call.pc = "postPage"
    /\ call.site = "post"
    /\ browserLoggedIn
    /\ browser \in connected
    /\ launches = 1
    /\ loggedOn = {1}

\* C13: when the login transcript fails, the transcript stores no token and
\* leaves the flag unset, and the action that called for the session returns
\* a failure caused by the exception, without having issued its mutating
\* call, on a session that is not logged in.
C13_LoginFailure ==
    /\ [](call.pc = "idle" /\ ret.at = "login"
            => /\ ret.cause = "exception"
               /\ ~ret.success
               /\ ~ret.posted
               /\ ~browserLoggedIn)
    /\ [][call.pc = "login" /\ call'.exc
            => sessionCsrf' = sessionCsrf /\ ~browserLoggedIn']_vars

\* addToWatchlist has returned after its login transcript failed.
C13_Witness ==
    /\ call.pc = "idle"
    /\ ret.op = "addToWatchlist"
    /\ ret.at = "login"
    /\ launches = 1

\* C14: an action that has its session back from ensureBrowserLoggedIn holds
\* an instance on which the login transcript has succeeded, also when the
\* instance it used before has crashed: the crash is answered by a launch and
\* a new login before the action goes on.
C14_CrashRelaunchRelogin ==
    call.pc \in PostEnsurePcs => browser # 0 /\ browser \in loggedOn

\* The first instance was logged in and is gone; addToWatchlist has issued
\* its mutating call on the second one, which was logged in too, and no
\* auth rejection took place.
C14_Witness ==
    /\ call.op = "addToWatchlist"
    /\ call.posted
    /\ call.status \in Statuses
    /\ recov.st = "none"
    /\ browser = 2
    /\ 1 \notin connected
    /\ loggedOn = {1, 2}

\* C15: a job is called once, also when it fails or throws: it is started at
\* most once and no job that has started is in the queue.  Its failure does
\* not stop the drain: once a job is over and the drain has resumed, the job
\* enqueued next after it has been started.
C15_FailureDoesNotStopDrain ==
    /\ \A r \in Reqs : req[r].starts <= 1
    /\ \A k \in 1..Len(puppeteerQueue) : req[puppeteerQueue[k]].starts = 0
    /\ \A i \in 1..Len(enqLog) :
            (i < Len(enqLog) /\ req[enqLog[i]].pc = "done") => Started(enqLog[i + 1])

\* A job failed while two jobs waited behind it; the drain went on to the
\* first of them, which is over too, and on to the second, which is running.
C15_Witness ==
    /\ Len(enqLog) >= 3
    /\ req[enqLog[1]].outcome \in {"failed", "threw"}
    /\ req[enqLog[1]].pc = "done"
    /\ req[enqLog[2]].waited /\ req[enqLog[2]].pc = "done"
    /\ req[enqLog[3]].waited /\ req[enqLog[3]].pc \in ExecutingPcs
    /\ \A r \in Reqs : req[r].starts <= 1

\* C16: whenever the queue is non-empty a drain is in progress (the flag is
\* set and a job is running or has just ended), and every job that waits in
\* the queue is eventually started, given that every job terminates.
C16_NoStrandedJob ==
    /\ [](puppeteerQueue # <<>>
            => /\ puppeteerRunning
               /\ \E r \in Reqs : req[r].pc \in ExecutingPcs \cup {"settled"})
    /\ \A r \in Reqs : (req[r].pc = "queued") ~> Started(r)

\* A job that waited in the queue was started by the drain; the drain then
\* found the queue empty and cleared its flag, and a job enqueued after that
\* was started by its own enqueue call.
C16_Witness ==
    /\ Len(enqLog) >= 3
    /\ req[enqLog[2]].waited /\ req[enqLog[2]].pc = "done"
    /\ ~req[enqLog[3]].waited /\ Started(enqLog[3])

\* C17: the response of a mutating request has been sent before the handler
\* resolves the identifier and before the request's job starts: a request
\* that is resolving, running or over has its response.
C17_AckBeforeJob ==
    \A r \in Reqs : (Started(r) \/ req[r].pc \in ResolvingPcs) => req[r].acked

\* C18: a rateFilm call that has issued its mutating call was given an
\* accepted star value v and has sent the integer 2 * v, which lies in 1..10
\* (4.5 gives 9, 5 gives 10).
C18_RatingTimesTwo ==
    (call.op = "rateFilm" /\ call.posted)
        => /\ call.stars \in StarKeys
           /\ 5 * call.sent = StarTenths[call.stars]
           /\ call.sent \in 1..10
           /\ call.stars = "4.5" => call.sent = 9
           /\ call.stars = "5" => call.sent = 10

\* rateFilm was called with 4.5 stars and has issued its mutating call.
C18_Witness ==
    /\ call.op = "rateFilm"
    /\ call.stars = "4.5"
    /\ call.posted
    /\ call.status = "ok200"
    /\ call.sent = 9

\* C19: a /rate request whose star value is not an accepted one causes no
\* network action: its handler never resolves the identifier (listing,
\* metadata and fallback fetches) and its job issues no mutating call.
C19_InvalidRatingNoNetwork ==
    \A r \in Reqs :
        (IsRating(req[r].action) /\ req[r].action \notin StarKeys \cup {"none"})
            => req[r].pc \notin ResolvingPcs /\ req[r].posts = 0

\* C20: without the credentials in the environment no mutating operation
\* does anything: no browser is launched, no page is opened, no mutating call
\* is issued, no dedup entry is recorded and no job is enqueued.
C20_NoCredentialsNoOp ==
    ~hasSession
        => /\ launches = 0
           /\ openTabs = 0
           /\ ~call.posted
           /\ \A k \in Keys : recentRatings[k] = 0
           /\ enqLog = <<>>
           /\ \A r \in Reqs : req[r].pc \in {"new", "nosession"}

\* C21: every write operation (rate, add to the watchlist, remove from the
\* watchlist) ends by returning a {success, error?} result to its queue job:
\* no job that has ended has thrown into the queue.
C21_WriteOpsReturnResult ==
    \A r \in Reqs :
        req[r].pc \in CompletePcs => req[r].outcome \in {"ok", "failed"}

\* C24: after setCache(k, v, ttl) at time t with no later setCache on k,
\* getCache(k) returns v at every time before t + ttl and null at every time
\* from t + ttl on, the instant t + ttl included.
C24_ExpiryAtInstant ==
    LET g == cacheLog.get
    IN  g.key \in TestKeys =>
            LET s == cacheLog.sets[g.key]
            IN  s.n > 0 =>
                    IF g.at < s.at + s.ttl
                    THEN g.hit /\ g.value = s.value
                    ELSE ~g.hit

\* C25: a second setCache on a key replaces the value and the expiry: after it
\* getCache returns the second value before the second expiry and null after
\* it, whatever the expiry of the first entry was.
C25_SecondSetReplaces ==
    LET g == cacheLog.get
    IN  g.key \in TestKeys =>
            LET s == cacheLog.sets[g.key]
            IN  s.n >= 2 =>
                    /\ g.at < s.at + s.ttl => g.hit /\ g.value = s.value
                    /\ g.at > s.at + s.ttl => ~g.hit

\* The second setCache gave the key a shorter life than its first entry had
\* left, and a getCache after the new expiry, inside the old one, missed.
C25_Witness ==
    LET g == cacheLog.get
    IN  /\ g.key \in TestKeys
        /\ cacheLog.sets[g.key].n = 2
        /\ cacheLog.sets[g.key].at + cacheLog.sets[g.key].ttl < g.at
        /\ g.at < cacheLog.sets[g.key].before
        /\ ~g.hit

\* The film of the listing whose metadata carried the requested identifier.
Matches(j) == rs.visited[j][2] = rs.imdbId

\* C22: resolveSlugFromImdb tries the identity map, then the listing scan,
\* then the fallback, and stops at the first that succeeds: a hit of the map
\* returns its slug without any request, a match of the scan is the last
\* film visited and is returned without the fallback, and the fallback runs
\* only after a scan without match.
C22_ResolveOrder ==
    /\ rs.hadEntry =>
            /\ rs.pc = "idle" /\ rs.by = "map"
            /\ rs.pagesReq = <<>> /\ rs.visited = <<>> /\ rs.fallbacks = 0
    /\ rs.by = "map" => rs.hadEntry
    /\ \A j \in 1..Len(rs.visited) :
            Matches(j) =>
                /\ j = Len(rs.visited)
                /\ rs.pc = "idle" /\ rs.by = "scan" /\ rs.out = rs.visited[j][1]
                /\ rs.fallbacks = 0
    /\ rs.by = "scan" => rs.visited # <<>> /\ Matches(Len(rs.visited))
    /\ rs.by = "fallback" => rs.fallbacks = 1 /\ rs.out = SiteSlug(rs.imdbId)
    /\ rs.by # "none" =>
            MapHas(imdbToSlugCache, rs.imdbId) /\ imdbToSlugCache[rs.imdbId] = rs.out

\* The scan passed over one film and returned the second, without fallback.
C22_Witness ==
    /\ rs.by = "scan"
    /\ Len(rs.visited) = 2
    /\ rs.fallbacks = 0
    /\ rs.out = rs.visited[2][1]

\* The call has passed its scan without a match.
ScanMissed ==
    /\ rs.calls > 0 /\ ~rs.hadEntry
    /\ rs.pc \in FallbackPcs \/ (rs.pc = "idle" /\ rs.by # "scan")

\* C23: a resolveSlugFromImdb call that finds no identity entry and no match
\* in the listing (the listing or the metadata fetches may have failed)
\* calls the fallback exactly once, and when that fails too it returns null:
\* it never throws.
C23_FallbackOnce ==
    /\ ~rs.threw
    /\ rs.fallbacks <= 1
    /\ ScanMissed => rs.fallbacks = 1
    /\ (ScanMissed /\ rs.pc = "idle" /\ rs.by = "none") =>
            rs.out = "none" /\ ~MapHas(imdbToSlugCache, rs.imdbId)

\* The first page of the listing failed, the fallback ran once and failed,
\* and the call returned null.
C23_Witness ==
    /\ ScanMissed
    /\ rs.pc = "idle"
    /\ rs.stopped = "failed" /\ rs.watchlist = <<>>
    /\ rs.fallbacks = 1
    /\ rs.out = "none"

\* Every page served so far, but possibly the last, carried the next-page link.
AllButLastHaveNext(n) == \A j \in 1..n : rs.served[j].hasNext

\* C26: getWatchlist pages through the listing once: pages 1, 2, ... are
\* requested in turn, none twice; no page is requested after a page without
\* next-page link or after a page whose fetch failed; and the list returned
\* is the films of the pages served, page after page, in site order.
C26_PagingStops ==
    /\ \A j \in 1..Len(rs.pagesReq) : rs.pagesReq[j] = j
    /\ rs.stopped = "cached" => rs.pagesReq = <<>>
    /\ rs.pc = "listing" =>
            /\ Len(rs.served) = Len(rs.pagesReq) - 1
            /\ AllButLastHaveNext(Len(rs.served))
    /\ rs.stopped = "nonext" =>
            /\ Len(rs.served) = Len(rs.pagesReq)
            /\ AllButLastHaveNext(Len(rs.served) - 1)
            /\ ~rs.served[Len(rs.served)].hasNext
    /\ rs.stopped = "failed" =>
            /\ Len(rs.served) = Len(rs.pagesReq) - 1
            /\ AllButLastHaveNext(Len(rs.served))
    /\ rs.stopped \in {"nonext", "failed"} => rs.watchlist = Flatten(rs.served)

\* Two pages were served, the second without next-page link, and the list
\* holds the films of the first before those of the second.
C26_Witness ==
    /\ rs.stopped = "nonext"
    /\ rs.pagesReq = <<1, 2>>
    /\ rs.served[1].films = <<"s1", "s2">>
    /\ rs.served[2].films = <<"s2">>
    /\ rs.watchlist = <<"s1", "s2", "s2">>

\* C27: getWatchlist and getFilmMeta never throw to their caller.  A page
\* fetch that fails ends the listing with the films of the pages before it;
\* a metadata fetch that fails gives a record without identifier, and the scan
\* goes on to the next film, so a scan without match has compared every film
\* of the list.
C27_ReadsNeverThrow ==
    /\ ~rs.threw
    /\ rs.stopped = "failed" =>
            /\ rs.pc # "listing"
            /\ rs.watchlist = Flatten(rs.served)
    /\ \A j \in 1..Len(rs.visited) :
            /\ rs.visited[j][1] = rs.watchlist[j]
            /\ rs.visited[j][3] = "failed" => rs.visited[j][2] = "none"
    /\ ScanMissed => Len(rs.visited) = Len(rs.watchlist)

\* The second page failed, the list holds the two films of the first, the
\* metadata fetch of the first film failed and the second film was compared.
C27_Witness ==
    /\ rs.stopped = "failed"
    /\ rs.watchlist = <<"s1", "s2">>
    /\ Len(rs.visited) = 2
    /\ rs.visited[1][3] = "failed"
    /\ rs.visited[2][3] = "fetched"

\* C28: once the scan of resolveSlugFromImdb has compared a film whose
\* metadata carries an identifier, the identity map has an entry for that
\* identifier, whether or not it is the one asked for.
C28_ScanFillsIdentityMap ==
    \A j \in 1..Len(rs.visited) :
        rs.visited[j][2] # "none" => MapHas(imdbToSlugCache, rs.visited[j][2])

C31_LightFetchThenBrowser ==
    /\ rs.viaBrowser => rs.light = "noslug"
    /\ (rs.light = "noslug" /\ rs.pc = "idle") => rs.viaBrowser

C33_OverlapLikeSequence ==
    (/\ \A i \in Racers : race.c[i].calls = 1 /\ race.c[i].pc = "idle" /\ ~race.c[i].hadEntry
     /\ race.overlap)
        => LET q == OneAfterTheOther(race.memo, now)
           IN  /\ race.c[1].out = race.c[2].out
               /\ race.c[1].out = q.first
               /\ race.c[2].out = q.second
               /\ imdbToSlugCache = q.map
               /\ cache = q.cache

C33_Witness ==
    /\ \A i \in Racers : race.c[i].calls = 1 /\ race.c[i].pc = "idle" /\ ~race.c[i].hadEntry
    /\ race.overlap
    /\ \A i \in Racers : race.c[i].by = "scan" /\ Len(race.c[i].pagesReq) = 2
    /\ race.c[1].out = "s2"
    /\ MapHas(imdbToSlugCache, RaceId)
    /\ Len(cache[WatchlistKey].value) = 3

\* C34: jobs start in the order their requests were received: of two
\* accepted requests with different dedup keys, the one received first has
\* its job started before the job of the other, however long each
\* resolution takes.
C34_StartsInArrivalOrder ==
    \A r1, r2 \in Reqs :
        (/\ r1 < r2
         /\ req[r1].accepted /\ req[r2].accepted
         /\ <<req[r1].imdbId, req[r1].action>> # <<req[r2].imdbId, req[r2].action>>
         /\ req[r1].pc \notin {"notfound"}
         /\ req[r2].starts > 0)
            => req[r1].starts > 0

\* C35: whenever the session of letterboxd.js is logged in, the stored token
\* is not empty: a login that succeeds and finds no token on the page does
\* not leave the flag set.
C35_LoggedInHasToken ==
    (build = "current" /\ browserLoggedIn) => sessionCsrf # 0

\* C36: the session is never stuck: once the site accepts logins (with a
\* token) and mutating calls, after whatever failed actions, an action that
\* is called later succeeds, without a restart of the process.
C36_SettledSiteLeadsToSuccess == siteGood ~> ret.success

\* C37: at most one browser instance is alive at any time, and whenever
\* the reference to an instance is dropped or replaced that instance is
\* closed or disconnected.
C37_OneBrowserAlive ==
    /\ [](Cardinality(connected) <= 1)
    /\ [][(browser # 0 /\ browser' # browser) => browser \notin connected']_vars

\* C38: the dedup timestamp of an accepted request is there from the moment
\* of acceptance on (while the identifier is resolved, while the job waits and
\* runs) and is never taken back: an identical request that arrives within
\* the window is rejected, also when the accepted one ended with the
\* identifier not found or with a failed job.
C38_StampNeverRolledBack ==
    \A r \in Reqs :
        req[r].accepted =>
            LET key == <<req[r].imdbId, req[r].action>>
            IN  /\ recentRatings[key] >= req[r].at
                /\ \A r2 \in Reqs :
                       (/\ r2 > r
                        /\ req[r2].acked
                        /\ <<req[r2].imdbId, req[r2].action>> = key
                        /\ req[r2].at - req[r].at < DedupWindowMs)
                           => req[r2].pc = "duplicate"

\* The identifier of the first request was not found; the identical second
\* request, within the window, was rejected.
C38_Witness ==
    /\ req[1].accepted
    /\ req[1].pc = "notfound"
    /\ req[2].pc = "duplicate"
    /\ req[2].imdbId = req[1].imdbId /\ req[2].action = req[1].action
    /\ req[2].at - req[1].at < DedupWindowMs
    /\ recentRatings[<<req[1].imdbId, req[1].action>>] = req[1].at

C40_OnlyFetchedMetaCached ==
    /\ [][rs.pc = "meta" =>
              LET slug == rs.watchlist[rs.i]
                  v == rs'.visited[Len(rs.visited) + 1]
              IN  /\ v[1] = slug
                  /\ ~MapHas(cache, MetaKey(slug))
                  /\ IF v[3] = "failed"
                     THEN /\ v[2] = "none"
                          /\ ~MapHas(cache', MetaKey(slug))
                          /\ DOMAIN cache' \subseteq DOMAIN cache
                          /\ \A k \in DOMAIN cache' : cache'[k] = cache[k]
                     ELSE /\ v[3] = "fetched"
                          /\ MapHas(cache', MetaKey(slug))
                          /\ cache'[MetaKey(slug)] =
                                 [value |-> v[2], expiresAt |-> now + MetaTtlMs]]_vars
    /\ [][\A slug \in Slugs :
              (/\ MapHas(cache', MetaKey(slug))
               /\ MapHas(cache, MetaKey(slug)) => cache'[MetaKey(slug)] # cache[MetaKey(slug)])
                  => /\ rs.pc = "meta"
                     /\ rs.watchlist[rs.i] = slug
                     /\ rs'.visited[Len(rs.visited) + 1][3] = "fetched"]_vars

\* The list held the same film twice: its first request failed and left no
\* entry, so the second visit sent the request again, which succeeded and
\* was cached.
C40_Witness ==
    /\ Len(rs.visited) >= 2
    /\ \E j \in 1..(Len(rs.visited) - 1) :
            /\ rs.visited[j][1] = rs.visited[j + 1][1]
            /\ rs.visited[j][3] = "failed" /\ rs.visited[j][2] = "none"
            /\ rs.visited[j + 1][3] = "fetched"
            /\ MapHas(cache, MetaKey(rs.visited[j][1]))
            /\ cache[MetaKey(rs.visited[j][1])].value = rs.visited[j + 1][2]

====
